---------------------------- MODULE Spec2Model ----------------------------
(***************************************************************************)
(* A model of the votron proposal voting pipeline.                         *)
(*                                                                         *)
(*   Part 1  AgentCallQueue (src/src/agentQueue.ts): the serialized call   *)
(*           queue in front of the remote signer.                          *)
(*   Part 2  Voter (src/src/voter.ts) with castVote of voting-utils.ts and *)
(*           the callers of the decision engine: the approval-event        *)
(*           handler, POST /api/vote and POST /api/manual-vote.            *)
(*                                                                         *)
(* JavaScript runs every handler to completion between two awaits, so one  *)
(* action of the model is the code that runs from one await to the next.   *)
(***************************************************************************)
EXTENDS Integers, Sequences, FiniteSets

(***************************************************************************)
(* Bounds of the model.                                                    *)
(***************************************************************************)
\* MAX_QUEUE_SIZE is 100 in agentQueue.ts:24; the model scales it down so
\* that a full queue is reached with a handful of operations.
MAX_QUEUE_SIZE == 2
\* number of enqueue calls the callers make
MaxOps == 4
\* number of attempts that may hang until the queue-level timeout
MaxTimeouts == 1
\* failed attempts, of all operations together
MaxFailures == 4

\* invocations of the decision engine (evaluations, manual votes)
MaxTasks == 2
\* calls of clearHistory
MaxClears == 1

\* requests to the routes that read the agent's account
MaxRequests == 1

\* the size cap of the decision history (voter.ts:472), 1000 in the
\* source, and the readings of the clock
HistoryCap == 2
MaxClock == 2

\* tokens in one answer of the AI
MaxTokens == 3

\* events in one message of the feed
MaxEvents == 3

\* sockets the event monitor creates, and messages the feed delivers
MaxSockets == 10
MaxHandlers == 1

OpIds == 1..MaxOps
\* The engine keys its two maps by proposal id and no step for one proposal
\* reads the entry of another, so the model follows one proposal.
Pids == {1}
TaskIds == 1..MaxTasks
SockIds == 1..MaxSockets
HandlerIds == 1..MaxHandlers
ReqIds == 1..MaxRequests

VARIABLES
  \* ---- AgentCallQueue fields (agentQueue.ts:22-23)
  isProcessing,      \* private isProcessing: boolean
  queue,             \* private queue: QueueItem[]  (items [id, retryCount])
  \* ---- control state of the async methods
  loops,             \* the processQueue invocations that are inside the
                     \* try block, each with its position and its item
  restartScheduled,  \* pending setImmediate callbacks (agentQueue.ts:71)
  running,           \* calls started by callWithTimeout whose promise has
                     \* not settled yet (what the signer is working on)
  \* ---- the callers' side
  nextOp,            \* id of the next enqueue call (ids in call order)
  outcome,           \* state of the promise returned by enqueue
  reason,            \* error a promise was rejected with
  \* ---- history
  settleCalls,       \* times resolve or reject of the item was invoked
  attempts,          \* times the operation was invoked
  fails,             \* attempts that ended in the catch block
  lastErr,           \* message of the latest error of the operation
  timeouts,          \* attempts abandoned by the queue-level timeout
  late,              \* completions of attempts that had timed out
  startLog,          \* operation ids in the order their attempts started
  doneLog,           \* operation ids in the order their promises settled
  \* ---- Voter fields (voter.ts:45-46)
  voteHistory,       \* Map proposal id -> VoteDecision (an object id, 0: none)
  executionResults,  \* Map proposal id -> ExecutionStatus (NoStatus: none)
  objs,              \* the VoteDecision objects, by the task that made them
  \* ---- control state of the engine's async methods
  tasks,             \* invocations of evaluateProposal / recordManualVote
  nextTask,
  \* ---- the chain
  chainVoted,        \* the identity's vote on the proposal is on chain
  \* ---- history
  aiCalls,           \* requests sent to the AI capability, per proposal
  lastStep,          \* what the latest step of the engine did: the
                     \* entry point called ("-": a continuation) and the
                     \* proposal it was called for, the
                     \* proposal voteOnProposal was called for (0: not
                     \* called), the calls handed to the call queue, the
                     \* stored decision evaluateProposal returned at once
                     \* (0: none), the answer the verification got
  submissions,       \* cast_vote calls handed to the call queue, per proposal
  clears,            \* calls of clearHistory
  manuals,           \* recordManualVote has been called
  \* ---- event monitor (part_000:48-50)
  eventClient,       \* let eventClient: WebSocket | null (a socket id, 0: null)
  isConnecting,      \* let isConnecting
  reconnectAttempts, \* let reconnectAttempts
  \* ---- the sockets and the running handlers
  socks,             \* state of every socket created so far
  nextSock,          \* id of the next socket
  started,           \* the startup timer (part_000:679-684) has fired
  polls,             \* the handleVote invocations
  nextPoll,
  openLog,           \* what the open handler of every socket did
  \* ---- one call of checkVoteRecordedOnChain (voting-utils.ts:622-734)
  attempt,           \* the loop variable; -1 before the call
  answers,           \* what the RPC node answered to each attempt so far
  returned,          \* the value the call returned, NotReturned until then
  \* ---- GET /agent-info and GET /balance (routes/vote.ts:152-168, 228-252)
  requests,          \* the handlers of these routes
  \* ---- one run of the message handler (part_000:599-641)
  handler,           \* its events, its position, what it has done
  \* ---- one call of parseAIResponse (voter.ts:196-251)
  parse,             \* the response text and what the parser made of it
  \* ---- the decision history under its size cap (voter.ts:458-482)
  hist,              \* the entries of voteHistory in insertion order
  clock,             \* the time new Date() reads
  inflight,          \* the decisions whose voteOnProposal is awaited
  nextPid,           \* the next proposal id not yet used
  execs,             \* the entries of executionResults in insertion order
  \* ---- two evaluations side by side (voter.ts:70-104, 106-194)
  ask                \* their proposals, prompts and recorded options

qvars == <<isProcessing, queue, loops, restartScheduled, running, nextOp,
           outcome, reason, settleCalls, attempts, fails, lastErr, timeouts,
           late, startLog, doneLog>>

vvars == <<voteHistory, executionResults, objs, tasks, nextTask, chainVoted,
           aiCalls, lastStep, submissions, clears, manuals>>

mvars == <<eventClient, isConnecting, reconnectAttempts, socks, nextSock,
           started, polls, nextPoll, openLog>>

cvars == <<attempt, answers, returned>>

rvars == <<requests>>

evars == <<handler>>

pvars == <<parse>>

hvars == <<hist, clock, inflight, nextPid, execs>>

avars == <<ask>>

vars == <<qvars, vvars, mvars, cvars, rvars, evars, pvars, hvars, avars>>

(***************************************************************************)
(* Error messages.  A message is a sequence of words; includes(marker) of  *)
(* the code is "some word of the lower-cased message is the marker".       *)
(***************************************************************************)
NoMsg == "-"
TimeoutMsg == "Operation timed out"            \* agentQueue.ts:121
\* messages an operation can fail with
OpErrors == {"Network timeout", "invalid args"}

Words(msg) ==
  CASE msg = "Network timeout"     -> <<"Network", "timeout">>
    [] msg = "invalid args"        -> <<"invalid", "args">>
    [] msg = "Operation timed out" -> <<"Operation", "timed out">>
    [] OTHER                       -> <<>>

\* String.prototype.toLowerCase on the words used here
ToLowerCase(w) ==
  CASE w = "Network"   -> "network"
    [] w = "Operation" -> "operation"
    [] OTHER           -> w

Includes(msg, marker) ==
  \E i \in 1..Len(Words(msg)) : ToLowerCase(Words(msg)[i]) = marker

\* shouldRetry, agentQueue.ts:133-142
ShouldRetry(msg) ==
  \/ Includes(msg, "nonce")
  \/ Includes(msg, "timeout")
  \/ Includes(msg, "network")
  \/ Includes(msg, "connection")
  \/ Includes(msg, "timed out")

RetryAllowedOffByOne(retryCount, msg) == retryCount <= 2 /\ ShouldRetry(msg)

\* the condition of agentQueue.ts:93
RetryAllowed(retryCount, msg) == retryCount < 2 /\ ShouldRetry(msg)

RejectsAlways(retry) == TRUE

RejectsNever(retry) == FALSE

\* reject(error) is in the else branch of the retry test, agentQueue.ts:102-104
RejectsOnFailure(retry) == ~retry

RequeueAtTail(q, item) == Append(q, item)

\* this.queue.unshift(...), agentQueue.ts:97-101
RequeueAtHead(q, item) == <<item>> \o q

EnqueueAcceptsOffByOne(len) == len <= MAX_QUEUE_SIZE

\* the capacity test of enqueue, agentQueue.ts:28-30
EnqueueAccepts(len) == ~(len >= MAX_QUEUE_SIZE)

ProcessQueueGuardNoFlag(processing, len) == ~(len = 0)

\* processQueue goes on past agentQueue.ts:51-53
ProcessQueueGuard(processing, len) == ~(processing \/ len = 0)

(***************************************************************************)
(* Promise settlement: resolve and reject of the item.  A promise keeps    *)
(* its first settlement; the model counts every invocation.                *)
(***************************************************************************)
Settle(id, how, why) ==
  /\ settleCalls' = [settleCalls EXCEPT ![id] = @ + 1]
  /\ IF outcome[id] = "pending"
     THEN /\ outcome' = [outcome EXCEPT ![id] = how]
          /\ reason' = [reason EXCEPT ![id] = why]
          /\ doneLog' = Append(doneLog, id)
     ELSE UNCHANGED <<outcome, reason, doneLog>>

NoSettle == UNCHANGED <<outcome, reason, settleCalls, doneLog>>

CurrentAttempt(l) ==
  [id |-> l.item.id, n |-> attempts[l.item.id], abandoned |-> FALSE]

(***************************************************************************)
(* processQueue, agentQueue.ts:50-78                                       *)
(***************************************************************************)
\* One turn of the while loop up to the await inside callWithTimeout:
\* shift (59), processQueueItem (62, 81-84), call() (113).
Dequeue(q, others) ==
  LET item == Head(q) IN
  /\ queue' = Tail(q)
  /\ loops' = others \cup {[pc |-> "call", item |-> item]}
  /\ attempts' = [attempts EXCEPT ![item.id] = @ + 1]
  /\ running' = running \cup
        {[id |-> item.id, n |-> attempts[item.id] + 1, abandoned |-> FALSE]}
  /\ startLog' = Append(startLog, item.id)

FinallyWithoutRestart(q, others) ==
  /\ isProcessing' = FALSE
  /\ restartScheduled' = restartScheduled
  /\ loops' = others

\* the finally block, agentQueue.ts:68-77
Finally(q, others) ==
  /\ isProcessing' = FALSE
  /\ restartScheduled' = IF Len(q) > 0 THEN restartScheduled + 1
                                       ELSE restartScheduled
  /\ loops' = others

\* processQueue() from its call to its first await, on the pending list q
ProcessQueue(q) ==
  IF ProcessQueueGuard(isProcessing, Len(q))
  THEN /\ isProcessing' = TRUE
       /\ Dequeue(q, loops)
  ELSE /\ queue' = q
       /\ UNCHANGED <<isProcessing, loops, attempts, running, startLog>>

(***************************************************************************)
(* enqueue, agentQueue.ts:27-48                                            *)
(***************************************************************************)
Enqueue ==
  /\ nextOp <= MaxOps
  /\ nextOp' = nextOp + 1
  /\ IF EnqueueAccepts(Len(queue))
     THEN /\ outcome' = [outcome EXCEPT ![nextOp] = "pending"]
          /\ ProcessQueue(Append(queue, [id |-> nextOp, retryCount |-> 0]))
          /\ UNCHANGED <<reason, settleCalls, doneLog>>
     ELSE \* throw new Error("Queue full ...")
          /\ outcome' = [outcome EXCEPT ![nextOp] = "full"]
          /\ UNCHANGED <<isProcessing, queue, loops, attempts, running,
                         startLog, reason, settleCalls, doneLog>>
  /\ UNCHANGED <<restartScheduled, fails, lastErr, timeouts, late>>

(***************************************************************************)
(* processQueueItem and callWithTimeout, agentQueue.ts:80-131              *)
(***************************************************************************)
MoveTo(l, pc) == loops' = (loops \ {l}) \cup {[l EXCEPT !.pc = pc]}

\* processQueueItem has returned and processQueue resumes with the pending
\* list q: the pacing delay of lines 64-66, or the loop test of line 58 and
\* the finally block.  The continuation of processQueue is queued before
\* that of the caller whose promise was just settled, so nothing runs in
\* between.
AfterItem(l, q) ==
  IF Len(q) > 0
  THEN /\ MoveTo(l, "pace")
       /\ UNCHANGED <<isProcessing, restartScheduled>>
  ELSE Finally(q, loops \ {l})

\* the call wins the race and fulfils: resolve(result), lines 84-86
CallSucceeds(l) ==
  /\ l \in loops /\ l.pc = "call"
  /\ running' = running \ {CurrentAttempt(l)}
  /\ Settle(l.item.id, "resolved", NoMsg)
  /\ AfterItem(l, queue)
  /\ UNCHANGED <<queue, nextOp, attempts, fails, lastErr, timeouts, late,
                 startLog>>

\* the catch block, lines 87-104, up to its await or its end
RECURSIVE SumTo(_, _)
SumTo(f, n) == IF n = 0 THEN 0 ELSE f[n] + SumTo(f, n - 1)

\* the failed attempts so far
Failures == SumTo(fails, MaxOps)

Catch(l, msg) ==
  LET retry == RetryAllowed(l.item.retryCount, msg) IN
  /\ fails' = [fails EXCEPT ![l.item.id] = @ + 1]
  /\ lastErr' = [lastErr EXCEPT ![l.item.id] = msg]
  /\ IF RejectsOnFailure(retry)
     THEN Settle(l.item.id, "rejected", msg)
     ELSE NoSettle
  /\ IF retry
     THEN /\ MoveTo(l, "retryDelay")
          /\ UNCHANGED <<isProcessing, restartScheduled>>
     ELSE AfterItem(l, queue)

\* the call wins the race and rejects with an Error
CallFails(l, msg) ==
  /\ l \in loops /\ l.pc = "call"
  /\ Failures < MaxFailures
  /\ running' = running \ {CurrentAttempt(l)}
  /\ Catch(l, msg)
  /\ UNCHANGED <<queue, nextOp, attempts, timeouts, late, startLog>>

\* the timer wins the race (lines 119-124); the call itself goes on
CallTimesOut(l) ==
  /\ l \in loops /\ l.pc = "call"
  /\ timeouts < MaxTimeouts /\ Failures < MaxFailures
  /\ timeouts' = timeouts + 1
  /\ running' = (running \ {CurrentAttempt(l)})
                  \cup {[CurrentAttempt(l) EXCEPT !.abandoned = TRUE]}
  /\ Catch(l, TimeoutMsg)
  /\ UNCHANGED <<queue, nextOp, attempts, late, startLog>>

\* a call that lost the race settles at last: Promise.race has already
\* settled and line 114 swallows a late rejection
LateSettle(a) ==
  /\ a \in running /\ a.abandoned
  /\ running' = running \ {a}
  /\ late' = [late EXCEPT ![a.id] = @ + 1]
  /\ UNCHANGED <<isProcessing, queue, loops, restartScheduled, nextOp,
                 outcome, reason, settleCalls, attempts, fails, lastErr,
                 timeouts, startLog, doneLog>>

\* the 500 ms retry delay is over: unshift, lines 95-101
RetryDelayDone(l) ==
  /\ l \in loops /\ l.pc = "retryDelay"
  /\ queue' = RequeueAtHead(queue, [id |-> l.item.id,
                                     retryCount |-> l.item.retryCount + 1])
  /\ AfterItem(l, queue')
  /\ UNCHANGED <<running, nextOp, outcome, reason, settleCalls, attempts,
                 fails, lastErr, timeouts, late, startLog, doneLog>>

\* the 200 ms pacing delay is over: next turn of the while loop
PaceDone(l) ==
  /\ l \in loops /\ l.pc = "pace"
  /\ IF Len(queue) > 0
     THEN /\ Dequeue(queue, loops \ {l})
          /\ UNCHANGED <<isProcessing, restartScheduled>>
     ELSE /\ Finally(queue, loops \ {l})
          /\ UNCHANGED <<queue, running, attempts, startLog>>
  /\ UNCHANGED <<nextOp, outcome, reason, settleCalls, fails, lastErr,
                 timeouts, late, doneLog>>

\* The call rejects with a reason that has no readable message (null or
\* undefined): error.message at line 90 throws inside the catch block,
\* processQueueItem rejects, and processQueue leaves through finally.
\* Neither resolve nor reject of the item is ever invoked.
CallFailsOpaque(l) ==
  /\ l \in loops /\ l.pc = "call"
  /\ Failures < MaxFailures
  /\ running' = running \ {CurrentAttempt(l)}
  /\ fails' = [fails EXCEPT ![l.item.id] = @ + 1]
  /\ outcome' = [outcome EXCEPT ![l.item.id] = "dropped"]
  /\ Finally(queue, loops \ {l})
  /\ UNCHANGED <<queue, nextOp, reason, settleCalls, attempts, lastErr,
                 timeouts, late, startLog, doneLog>>

\* the setImmediate callback of lines 71-75
Restart ==
  /\ restartScheduled > 0
  /\ restartScheduled' = restartScheduled - 1
  /\ ProcessQueue(queue)
  /\ UNCHANGED <<nextOp, outcome, reason, settleCalls, fails, lastErr,
                 timeouts, late, doneLog>>

(***************************************************************************)
(* Part 2.  Voter, voter.ts                                                *)
(***************************************************************************)
VoteOptions == {"For", "Against", "Abstain"}
NoOption == "-"
\* the option the AI answers and the operator sends in the model
Choices == {"For"}

\* ProposalData as far as the engine reads it: the status, whether
\* voting_options is there and holds the three standard labels ("std") or
\* other labels ("other"), whether snapshot_and_state.snapshot is there.
Statuses == {"-", "Voting", "Approved", "Finished", "Rejected"}
Proposals == [status : Statuses, options : {"-", "std", "other"},
              snapshot : BOOLEAN]
NoProp == [status |-> "-", options |-> "-", snapshot |-> FALSE]

\* the proposals the callers pass and fetchProposalInfo returns in the model
PropInputs ==
  { [status |-> "Voting",   options |-> "std",   snapshot |-> TRUE],
    [status |-> "Approved", options |-> "std",   snapshot |-> TRUE],
    [status |-> "Voting",   options |-> "std",   snapshot |-> FALSE],
    [status |-> "Voting",   options |-> "other", snapshot |-> TRUE] }

ReadyWithoutSnapshot(prop) == prop.options # "-"

\* the proposals handleVote passes on (part_000:437-461)
Ready(prop) == prop.snapshot /\ prop.options # "-"

NoStatus == [executed |-> FALSE, success |-> FALSE, tx |-> FALSE,
             err |-> "none", alreadyVoted |-> FALSE, set |-> FALSE]

Idle == [kind |-> "-", pid |-> 0, pc |-> "idle", prop |-> NoProp]

\* status is the status of the proposal the step's voteOnProposal was
\* given complete or has fetched, "none" in any other step
NoStep == [call |-> "-", pid |-> 0, voteOn |-> 0, handed |-> {}, ret |-> 0,
           verify |-> "-", status |-> "none"]

\* error.message.includes("Already voted"), voter.ts:283 and 355: the
\* message of voter.ts:301 ("Proposal <id> already voted") does not hold it
IncludesAlreadyVoted(msg) ==
  msg \in {"Already voted on proposal", "Already voted"}

\* isProposalExecuted, voter.ts:539-542
IsProposalExecuted(p) == executionResults[p].executed = TRUE

NeverExecuted(p) == FALSE

\* the test of voter.ts:300
ExecutedGuard(p) == IsProposalExecuted(p)

ValidateProposalStatusLenient(prop) == "ok"

\* validateProposalStatus, voter.ts:396-407: the error it throws, or "ok"
ValidateProposalStatus(prop) ==
  IF prop.status = "-" \/ prop.status = "Voting" THEN "ok"
  ELSE IF prop.status = "Approved" THEN "Voting has not started yet"
  ELSE IF prop.status = "Finished" THEN "Voting has already ended"
  ELSE "Cannot vote on proposal: status"

NewDecisionWithoutOption(p, first, opt) ==
  [pid |-> p, opt |-> NoOption, reasons |-> <<first>>, exec |-> "-"]

\* the VoteDecision object saveResult builds, voter.ts:463-468
NewDecision(p, first, opt) ==
  [pid |-> p, opt |-> opt, reasons |-> <<first>>, exec |-> "-"]

NoDecision == NewDecision(0, "-", NoOption)

PushReason(o, r) == [o EXCEPT !.reasons = Append(@, r)]

\* The heap after a step: obj is the object of task t.  An object that is
\* neither in the history nor held by a running invocation can no longer
\* be reached, and the model drops it.
Heap(t, obj) ==
  [u \in TaskIds |->
     LET o == IF u = t THEN obj ELSE objs[u] IN
     IF tasks'[u].pc # "idle" \/ (o.pid \in Pids /\ voteHistory'[o.pid] = u)
     THEN o ELSE NoDecision]

ExecutionFailedMarksExecuted(t, o, msg) ==
  /\ executionResults' = [executionResults EXCEPT ![o.pid] =
        [executed |-> TRUE, success |-> FALSE, tx |-> FALSE, err |-> msg,
         alreadyVoted |-> IncludesAlreadyVoted(msg), set |-> TRUE]]
  /\ tasks' = [tasks EXCEPT ![t] = Idle]
  /\ objs' = Heap(t, PushReason(o, "Voting failed"))

ExecutionFailedClearsOption(t, o, msg) ==
  /\ executionResults' = [executionResults EXCEPT ![o.pid] =
        [executed |-> FALSE, success |-> FALSE, tx |-> FALSE, err |-> msg,
         alreadyVoted |-> IncludesAlreadyVoted(msg), set |-> TRUE]]
  /\ tasks' = [tasks EXCEPT ![t] = Idle]
  /\ objs' = Heap(t, PushReason([o EXCEPT !.opt = NoOption], "Voting failed"))

\* the catch block of executeVote, voter.ts:275-286, for task t whose
\* decision object is o
ExecutionFailed(t, o, msg) ==
  /\ executionResults' = [executionResults EXCEPT ![o.pid] =
        [executed |-> FALSE, success |-> FALSE, tx |-> FALSE, err |-> msg,
         alreadyVoted |-> IncludesAlreadyVoted(msg), set |-> TRUE]]
  /\ tasks' = [tasks EXCEPT ![t] = Idle]
  /\ objs' = Heap(t, PushReason(o, "Voting failed"))

\* voteOnProposal returns (voter.ts:365-379) and executeVote goes on
\* (270-274); how is "tx" (a transaction hash came back), "notx" (none
\* came back) or "already" (the submission said Already voted)
ExecutionSucceeded(t, o, how) ==
  /\ voteHistory' = [voteHistory EXCEPT ![o.pid] = t]
  /\ executionResults' = [executionResults EXCEPT ![o.pid] =
        [executed |-> TRUE, success |-> TRUE, tx |-> (how = "tx"),
         err |-> "none", alreadyVoted |-> (how = "already"), set |-> TRUE]]
  /\ tasks' = [tasks EXCEPT ![t] = Idle]
  /\ objs' = Heap(t, PushReason([o EXCEPT !.exec = how],
                                "Autonomous vote submitted"))

\* voteOnProposal from its call to its first await, voter.ts:296-327: the
\* error it throws, or the await it stops at
VoteOnProposalEntry(p, prop) ==
  IF ExecutedGuard(p) THEN "Proposal already voted"
  ELSE IF ~(prop.options # "-" /\ prop.snapshot) THEN "await fetch"
  ELSE IF ValidateProposalStatus(prop) # "ok" THEN ValidateProposalStatus(prop)
  ELSE "await check"

\* saveResult (voter.ts:458-502) of a decision with a selected option, and
\* executeVote (253-269) on it up to the first await of voteOnProposal.
\* The history holds one entry, fewer than the cap of
\* 1000, so the eviction of lines 472-482 does nothing.
SaveAndExecute(t, kind, p, opt, prop, first) ==
  LET r == VoteOnProposalEntry(p, prop)
      o == NewDecision(p, first, opt)
      tk == [kind |-> kind, pid |-> p, pc |-> "-", prop |-> prop]
      entry == IF kind = "manual"
               THEN [NoStep EXCEPT !.call = "manual", !.pid = p]
               ELSE NoStep
  IN
  /\ voteHistory' = [voteHistory EXCEPT ![p] = t]
  /\ IF r = "await fetch"
     THEN /\ tasks' = [tasks EXCEPT ![t] = [tk EXCEPT !.pc = "fetch"]]
          /\ objs' = Heap(t, o)
          /\ lastStep' = [entry EXCEPT !.voteOn = p]
          /\ UNCHANGED executionResults
     ELSE IF r = "await check"
     THEN \* queuedAgentAccountId() (327), then checkIfAlreadyVoted (331)
          /\ tasks' = [tasks EXCEPT ![t] = [tk EXCEPT !.pc = "check"]]
          /\ objs' = Heap(t, o)
          /\ lastStep' = [entry EXCEPT !.voteOn = p,
                                        !.handed = {"accountId"},
                                        !.status = prop.status]
          /\ UNCHANGED executionResults
     ELSE /\ ExecutionFailed(t, o, r)
          /\ lastStep' = [entry EXCEPT !.voteOn = p,
                                        !.status =
                                          IF prop.options # "-" /\ prop.snapshot
                                          THEN prop.status ELSE "none"]

(***************************************************************************)
(* evaluateProposal, voter.ts:70-104                                       *)
(***************************************************************************)
CacheHitIfExecuted(p) == voteHistory[p] # 0 /\ IsProposalExecuted(p)

\* the test of lines 76-79: a decision is stored, and the proposal is
\* executed or the decision has a selected option
CacheHit(p) ==
  /\ voteHistory[p] # 0
  /\ (IsProposalExecuted(p) \/ objs[voteHistory[p]].opt # NoOption)

\* lines 76-93, up to the fetch of askAI.  The early return hands back the
\* stored decision and changes nothing.
EvaluateProposal(t, p, prop, call) ==
  IF CacheHit(p)
  THEN /\ lastStep' = [NoStep EXCEPT !.call = call, !.pid = p,
                                      !.ret = voteHistory[p]]
       /\ UNCHANGED <<tasks, aiCalls>>
  ELSE /\ tasks' = [tasks EXCEPT ![t] = [kind |-> "evaluate", pid |-> p,
                                         pc |-> "ai", prop |-> prop]]
       /\ aiCalls' = [aiCalls EXCEPT ![p] = @ + 1]
       /\ lastStep' = [NoStep EXCEPT !.call = call, !.pid = p]

\* POST /api/vote, routes/vote.ts:21-64, after fetchProposalInfo
VoteRequest(p, prop) ==
  /\ nextTask <= MaxTasks
  /\ nextTask' = nextTask + 1
  /\ EvaluateProposal(nextTask, p, prop, "evaluate")
  /\ UNCHANGED <<voteHistory, executionResults, objs, chainVoted,
                 submissions, clears, manuals>>

NoDecisionWithOption(p) ==
  voteHistory[p] = 0 \/ objs[voteHistory[p]].opt = NoOption

\* !evaluation of part_000:480, with evaluation = getVoteDecision(p)
\* (voter.ts:508-510)
NoDecisionStored(p) == voteHistory[p] = 0

\* an approval event whose proposal was found ready, part_000:472-483:
\* evaluateProposal is called only when no decision is stored
ApprovalEvent(p, prop) ==
  /\ nextTask <= MaxTasks
  /\ Ready(prop)
  /\ nextTask' = nextTask + 1
  /\ IF NoDecisionStored(p)
     THEN EvaluateProposal(nextTask, p, prop, "event")
     ELSE /\ lastStep' = [NoStep EXCEPT !.call = "event", !.pid = p]
          /\ UNCHANGED <<tasks, aiCalls>>
  /\ UNCHANGED <<voteHistory, executionResults, objs, chainVoted,
                 submissions, clears, manuals>>

AIFailureDefaultsToAbstain(p) ==
  NewDecision(p, "AI evaluation error", "Abstain")

\* the decision the catch block of evaluateProposal saves, voter.ts:100-103
AIFailureDecision(p) == NewDecision(p, "AI evaluation error", NoOption)

\* askAI throws (no key, no connection, non-2xx): lines 100-103
AIFails(t) ==
  /\ tasks[t].pc = "ai"
  /\ voteHistory' = [voteHistory EXCEPT ![tasks[t].pid] = t]
  /\ tasks' = [tasks EXCEPT ![t] = Idle]
  /\ objs' = Heap(t, AIFailureDecision(tasks[t].pid))
  /\ lastStep' = NoStep
  /\ UNCHANGED <<executionResults, nextTask, chainVoted, aiCalls,
                 submissions, clears, manuals>>

\* askAI returns a decision: lines 93-99 and executeVote up to its await
AIReturns(t, opt) ==
  /\ tasks[t].pc = "ai"
  /\ SaveAndExecute(t, "evaluate", tasks[t].pid, opt, tasks[t].prop, "Vote")
  /\ UNCHANGED <<nextTask, chainVoted, aiCalls, submissions, clears, manuals>>

(***************************************************************************)
(* recordManualVote, voter.ts:430-440, called by POST /api/manual-vote     *)
(* (part_000:284-297) with the proposal fetchProposalInfo returned         *)
(***************************************************************************)
RecordManualVote(p, opt, prop) ==
  /\ nextTask <= MaxTasks
  /\ nextTask' = nextTask + 1
  /\ manuals' = TRUE
  /\ SaveAndExecute(nextTask, "manual", p, opt, prop, "Manual vote")
  /\ UNCHANGED <<chainVoted, aiCalls, submissions, clears>>

\* clearHistory, voter.ts:572-576
ClearHistory ==
  /\ clears < MaxClears
  /\ clears' = clears + 1
  /\ voteHistory' = [p \in Pids |-> 0]
  /\ executionResults' = [p \in Pids |-> NoStatus]
  /\ UNCHANGED tasks
  /\ objs' = [u \in TaskIds |-> IF tasks[u].pc # "idle" THEN objs[u]
                                                        ELSE NoDecision]
  /\ lastStep' = NoStep
  /\ UNCHANGED <<nextTask, chainVoted, aiCalls, submissions, manuals>>

(***************************************************************************)
(* voteOnProposal after its first await, voter.ts:310-380, and castVote,   *)
(* voting-utils.ts:872-993                                                 *)
(***************************************************************************)
\* fetchProposalInfo of line 313 throws
FetchFails(t) ==
  /\ tasks[t].pc = "fetch"
  /\ UNCHANGED <<voteHistory, nextTask, chainVoted, aiCalls, submissions,
                 clears, manuals>>
  /\ ExecutionFailed(t, objs[t], "Failed to load proposal")
  /\ lastStep' = NoStep

\* fetchProposalInfo returns prop: validateProposalStatus (324), then
\* queuedAgentAccountId() (327) and checkIfAlreadyVoted (331)
FetchDone(t, prop) ==
  /\ tasks[t].pc = "fetch"
  /\ UNCHANGED <<voteHistory, nextTask, chainVoted, aiCalls, submissions,
                 clears, manuals>>
  /\ IF ValidateProposalStatus(prop) = "ok"
     THEN /\ tasks' = [tasks EXCEPT ![t] = [@ EXCEPT !.pc = "check",
                                                     !.prop = prop]]
          /\ lastStep' = [NoStep EXCEPT !.handed = {"accountId"},
                                         !.pid = tasks[t].pid,
                                         !.status = prop.status]
          /\ UNCHANGED <<executionResults, objs>>
     ELSE /\ ExecutionFailed(t, objs[t], ValidateProposalStatus(prop))
          /\ lastStep' = [NoStep EXCEPT !.pid = tasks[t].pid,
                                         !.status = prop.status]

\* what a get_vote query can answer (checkVoteRecordedOnChain,
\* voting-utils.ts:622-734): the vote, when it is on chain; no vote (the
\* node may lag behind a vote just cast); or no usable answer
VoteQueryAnswers(p) ==
  (IF chainVoted[p] THEN {"recorded"} ELSE {}) \cup {"absent", "unverified"}

\* the error castVote throws before its first await (878-889), or "ok"
CastVotePrecheck(prop) ==
  IF prop.options = "-" THEN "Voting options not available"
  ELSE IF ~prop.snapshot THEN "Snapshot data missing"
  ELSE IF prop.options # "std" THEN "Selected option not found"
  ELSE "ok"

\* checkIfAlreadyVoted (409-428) has answered: lines 338-343, then castVote
\* up to fetchAccountProofForSnapshot (878-912), which reads the account
\* id through the queue (892)
CheckDone(t, ans) ==
  /\ tasks[t].pc = "check"
  /\ UNCHANGED <<voteHistory, nextTask, chainVoted, aiCalls, submissions,
                 clears, manuals>>
  /\ ans \in VoteQueryAnswers(tasks[t].pid)
  /\ IF ans = "recorded"
     THEN /\ ExecutionFailed(t, objs[t], "Already voted on proposal")
          /\ lastStep' = NoStep
     ELSE IF CastVotePrecheck(tasks[t].prop) # "ok"
     THEN /\ ExecutionFailed(t, objs[t], CastVotePrecheck(tasks[t].prop))
          /\ lastStep' = NoStep
     ELSE /\ tasks' = [tasks EXCEPT ![t] = [@ EXCEPT !.pc = "proof",
                                                     !.prop = NoProp]]
          /\ lastStep' = [NoStep EXCEPT !.handed = {"accountId"}]
          /\ UNCHANGED <<executionResults, objs>>

\* fetchAccountProofForSnapshot throws
ProofFails(t) ==
  /\ tasks[t].pc = "proof"
  /\ UNCHANGED <<voteHistory, nextTask, chainVoted, aiCalls, submissions,
                 clears, manuals>>
  /\ ExecutionFailed(t, objs[t], "Failed to fetch proof")
  /\ lastStep' = NoStep

\* the proof is there: queuedAgent("functionCall", cast_vote), 918-929
ProofDone(t) ==
  /\ tasks[t].pc = "proof"
  /\ tasks' = [tasks EXCEPT ![t] = [@ EXCEPT !.pc = "submit"]]
  /\ submissions' = [submissions EXCEPT ![tasks[t].pid] = @ + 1]
  /\ lastStep' = [NoStep EXCEPT !.handed = {"castVote"}]
  /\ UNCHANGED <<voteHistory, executionResults, objs, nextTask, chainVoted,
                 aiCalls, clears, manuals>>

\* The answers of the submission.  The contract takes one vote of the
\* identity per proposal: "tx" (a transaction hash) is the first vote
\* landing, "Already voted" needs a vote on chain; "notx" (an answer with
\* no transaction reference) and "error" (an error answer or a rejection by
\* the queue) may or may not have left the vote on chain.
SubmitAnswers(p) ==
  IF chainVoted[p]
  THEN {<<"Already voted", TRUE>>, <<"notx", TRUE>>, <<"error", TRUE>>}
  ELSE {<<"tx", TRUE>>, <<"notx", TRUE>>, <<"notx", FALSE>>,
        <<"error", TRUE>>, <<"error", FALSE>>}

\* the submission has answered: castVote 931-966, voteOnProposal 353-380
SubmitDone(t, ans) ==
  /\ tasks[t].pc = "submit"
  /\ ans \in SubmitAnswers(tasks[t].pid)
  /\ chainVoted' = [chainVoted EXCEPT ![tasks[t].pid] = ans[2]]
  /\ IF ans[1] = "tx"
     THEN ExecutionSucceeded(t, objs[t], "tx")
     ELSE IF ans[1] = "Already voted"
     THEN ExecutionSucceeded(t, objs[t], "already")
     ELSE IF ans[1] = "error"
     THEN /\ UNCHANGED voteHistory
          /\ ExecutionFailed(t, objs[t], "Submission failed")
     ELSE \* no transaction reference: checkVoteRecordedOnChain, 966
          /\ tasks' = [tasks EXCEPT ![t] = [@ EXCEPT !.pc = "verify"]]
          /\ UNCHANGED <<voteHistory, executionResults, objs>>
  /\ lastStep' = NoStep
  /\ UNCHANGED <<nextTask, aiCalls, submissions, clears, manuals>>

\* the verification has answered: castVote 974-992
VerifyDone(t, ans) ==
  /\ tasks[t].pc = "verify"
  /\ ans \in VoteQueryAnswers(tasks[t].pid)
  /\ IF ans = "absent"
     THEN /\ UNCHANGED voteHistory
          /\ ExecutionFailed(t, objs[t], "Vote not recorded on-chain")
     ELSE ExecutionSucceeded(t, objs[t], "notx")
  /\ lastStep' = [NoStep EXCEPT !.verify = ans]
  /\ UNCHANGED <<nextTask, chainVoted, aiCalls, submissions, clears, manuals>>

(***************************************************************************)
(* Specifications                                                          *)
(***************************************************************************)
(***************************************************************************)
(* Part 3.  Event monitor, part_000:47-51 and 383-671                      *)
(*                                                                         *)
(* A socket of the ws package is "connecting" after new WebSocket(url),    *)
(* "open" after its open event, and "closed" after its close event, which  *)
(* it emits once.  close() puts an open socket in "closing" (the close     *)
(* event follows) and a connecting one in "aborting" (an error event and   *)
(* the close event follow); a failed handshake emits error and close back  *)
(* to back.                                                                *)
(***************************************************************************)
maxReconnectAttempts == 5         \* part_000:51
\* readinessDelays.length, part_000:395
ReadinessAttempts == 5

NoPoll == [pc |-> "idle", pid |-> 0, attempt |-> 0, outcome |-> "-"]

\* what fetchProposalInfo returns to handleVote in the model
FetchedProps ==
  PropInputs \cup {[status |-> "Voting", options |-> "-", snapshot |-> TRUE]}

\* sockets that are open or being connected
Live(sk) == {s \in SockIds : sk[s] \in {"connecting", "open"}}

\* WebSocket.close() on socket s
Close(sk, s) ==
  IF s = 0 THEN sk
  ELSE [sk EXCEPT ![s] = IF @ = "open" THEN "closing"
                         ELSE IF @ = "connecting" THEN "aborting"
                         ELSE @]

ReconnectAllowedOffByOne(n) == n <= maxReconnectAttempts

\* the test of the close handler, part_000:648
ReconnectAllowed(n) == n < maxReconnectAttempts

\* startEventStream (part_000:552-671) called in a state with handle ec,
\* flag conn and sockets sk, where id is the next unused socket: the
\* handle, the flag and the sockets after the call, and the number of
\* sockets made.  VOTING_CONTRACT_ID is set.
StartEventStream(ec, conn, sk, id) ==
  IF conn
  THEN [ec |-> ec, conn |-> conn, sk |-> sk, made |-> 0]
  ELSE [ec |-> id, conn |-> TRUE,
        sk |-> [Close(sk, ec) EXCEPT ![id] = "connecting"],
        made |-> 1]

ErrorHandlerReconnecting(ec, conn, sk, id) ==
  StartEventStream(0, FALSE, Close(sk, ec), id)

\* the error handler, part_000:659-666: it closes and drops the handle,
\* clears the flag and leaves reconnecting to the close handler
ErrorHandler(ec, conn, sk, id) ==
  [ec |-> 0, conn |-> FALSE, sk |-> Close(sk, ec), made |-> 0]

\* the close handler, part_000:643-657, with counter n
CloseHandler(n, sk, id) ==
  IF ReconnectAllowed(n)
  THEN LET r == StartEventStream(0, FALSE, sk, id)
       IN [n |-> n + 1, ec |-> r.ec, conn |-> r.conn, sk |-> r.sk,
           made |-> r.made]
  ELSE [n |-> n, ec |-> 0, conn |-> FALSE, sk |-> sk, made |-> 0]

\* the timer of part_000:679-684 fires: the one startEventStream call
\* that no handler makes
Startup ==
  /\ ~started
  /\ started' = TRUE
  /\ LET r == StartEventStream(eventClient, isConnecting, socks, nextSock)
     IN /\ eventClient' = r.ec
        /\ isConnecting' = r.conn
        /\ socks' = r.sk
        /\ nextSock' = nextSock + r.made
  /\ UNCHANGED <<reconnectAttempts, polls, nextPoll, openLog>>

OpenHandlerKeepsCounter(ec, conn, n, sk, s) ==
  [n |-> n, conn |-> FALSE,
   log |-> IF ec = s THEN "filter sent" ELSE "filter lost"]

\* the open handler of socket s, part_000:576-597, run with handle ec,
\* flag conn, counter n and sockets sk: the counter and the flag after
\* it, and what became of the filter.  The handler sends the filter
\* through the handle: eventClient!.send throws on a null handle and on a
\* socket still connecting, before anything is reset; a socket that is
\* closing or closed drops the data.
OpenHandler(ec, conn, n, sk, s) ==
  IF ec = 0 \/ sk[ec] = "connecting"
  THEN [n |-> n, conn |-> conn, log |-> "threw"]
  ELSE [n |-> 0, conn |-> FALSE,
        log |-> IF ec = s THEN "filter sent"
                ELSE IF sk[ec] = "open" THEN "filter sent elsewhere"
                ELSE "filter lost"]

\* the open event of socket s
SocketOpens(s) ==
  /\ socks[s] = "connecting"
  /\ socks' = [socks EXCEPT ![s] = "open"]
  /\ LET r == OpenHandler(eventClient, isConnecting, reconnectAttempts,
                          socks', s)
     IN /\ openLog' = [openLog EXCEPT ![s] = r.log]
        /\ reconnectAttempts' = r.n
        /\ isConnecting' = r.conn
  /\ UNCHANGED <<eventClient, nextSock, started, polls, nextPoll>>

\* an error on the open socket s: the socket is on its way to closed and
\* the error handler runs
SocketError(s) ==
  /\ socks[s] = "open"
  /\ LET r == ErrorHandler(eventClient, isConnecting,
                           [socks EXCEPT ![s] = "closing"], nextSock)
     IN /\ nextSock + r.made <= MaxSockets + 1
        /\ eventClient' = r.ec
        /\ isConnecting' = r.conn
        /\ socks' = r.sk
        /\ nextSock' = nextSock + r.made
  /\ UNCHANGED <<reconnectAttempts, started, polls, nextPoll, openLog>>

\* socket s emits its close event.  A socket whose handshake failed or was
\* aborted emits the error event just before: the error handler runs,
\* then the close handler.
SocketClosed(s) ==
  /\ socks[s] \in {"connecting", "aborting", "open", "closing"}
  /\ LET sk0 == [socks EXCEPT ![s] = "closed"]
         e == IF socks[s] \in {"connecting", "aborting"}
              THEN ErrorHandler(eventClient, isConnecting, sk0, nextSock)
              ELSE [ec |-> eventClient, conn |-> isConnecting, sk |-> sk0,
                    made |-> 0]
         r == CloseHandler(reconnectAttempts, e.sk, nextSock + e.made)
     IN
     /\ nextSock + e.made + r.made <= MaxSockets + 1
     /\ eventClient' = r.ec
     /\ isConnecting' = r.conn
     /\ socks' = r.sk
     /\ nextSock' = nextSock + e.made + r.made
     /\ reconnectAttempts' = r.n
  /\ UNCHANGED <<started, polls, nextPoll, openLog>>

\* startEventStream when new WebSocket(...) throws (part_000:572): the old
\* handle is closed and dropped (566-569), no socket is made, and the
\* catch block (667-670) clears the flag
StartEventStreamThrows(ec, conn, sk, id) ==
  IF conn
  THEN [ec |-> ec, conn |-> conn, sk |-> sk, made |-> 0]
  ELSE [ec |-> 0, conn |-> FALSE, sk |-> Close(sk, ec), made |-> 0]

\* the startup call, with the constructor throwing
StartupCreateFails ==
  /\ ~started
  /\ started' = TRUE
  /\ LET r == StartEventStreamThrows(eventClient, isConnecting, socks,
                                     nextSock)
     IN /\ eventClient' = r.ec
        /\ isConnecting' = r.conn
        /\ socks' = r.sk
  /\ UNCHANGED <<nextSock, reconnectAttempts, polls, nextPoll, openLog>>

\* the close event of socket s below the ceiling, with the constructor
\* throwing in the startEventStream call of the close handler (652)
SocketClosedCreateFails(s) ==
  /\ socks[s] \in {"connecting", "aborting", "open", "closing"}
  /\ ReconnectAllowed(reconnectAttempts)
  /\ LET sk0 == [socks EXCEPT ![s] = "closed"]
         e == IF socks[s] \in {"connecting", "aborting"}
              THEN ErrorHandler(eventClient, isConnecting, sk0, nextSock)
              ELSE [ec |-> eventClient, conn |-> isConnecting, sk |-> sk0,
                    made |-> 0]
         r == StartEventStreamThrows(0, FALSE, e.sk, nextSock)
     IN
     /\ eventClient' = r.ec
     /\ isConnecting' = r.conn
     /\ socks' = r.sk
     /\ reconnectAttempts' = reconnectAttempts + 1
  /\ UNCHANGED <<nextSock, started, polls, nextPoll, openLog>>

\* a message with one approval event for proposal p arrives on socket s:
\* the message handler (part_000:599-641) calls handleVote, which starts
\* its first readiness attempt with no delay (part_000:393-398)
Message(s, p) ==
  /\ socks[s] = "open"
  /\ nextPoll <= MaxHandlers
  /\ polls' = [polls EXCEPT ![nextPoll] =
                 [pc |-> "fetch", pid |-> p, attempt |-> 1, outcome |-> "-"]]
  /\ nextPoll' = nextPoll + 1
  /\ UNCHANGED <<eventClient, isConnecting, reconnectAttempts, socks,
                 nextSock, started, openLog>>

\* handler h has used an attempt without a ready proposal, part_000:398
\* (the loop test) and 467-472: the next attempt after its delay, or the
\* end of the handler
NotReady(h) ==
  polls' = [polls EXCEPT ![h] =
              IF @.attempt < ReadinessAttempts
              THEN [@ EXCEPT !.attempt = @ + 1]
              ELSE [@ EXCEPT !.pc = "done", !.outcome = "skipped"]]

\* fetchProposalInfo throws in handler h, part_000:462-465
PollFails(h) ==
  /\ polls[h].pc = "fetch"
  /\ NotReady(h)
  /\ UNCHANGED <<eventClient, isConnecting, reconnectAttempts, socks,
                 nextSock, started, nextPoll, openLog>>

\* fetchProposalInfo answers prop in handler h, part_000:409-461 and
\* 474-483
PollAnswer(h, prop) ==
  /\ polls[h].pc = "fetch"
  /\ IF Ready(prop)
     THEN /\ polls' = [polls EXCEPT ![h].pc = "done",
                                    ![h].outcome = "passed"]
          /\ ApprovalEvent(polls[h].pid, prop)
     ELSE /\ NotReady(h)
          /\ UNCHANGED vvars
  /\ UNCHANGED <<eventClient, isConnecting, reconnectAttempts, socks,
                 nextSock, started, nextPoll, openLog>>

(***************************************************************************)
(* Part 4.  checkVoteRecordedOnChain, voting-utils.ts:622-734              *)
(***************************************************************************)
\* the default of the parameter (voting-utils.ts:627), which voter.ts:415
\* takes, and the value castVote passes (voting-utils.ts:966-972)
maxRetries == 2

\* what the RPC node does with one get_vote query:
\*   "network"  fetch or res.json() throws
\*   "http"     a response whose status is not 2xx
\*   "rpcError" a 2xx response whose body carries an error and no result
\*   "empty"    a 2xx response whose result carries no bytes
\*   "garbled"  a result whose bytes are not JSON
\*   "null"     a result whose bytes are the JSON null
\*   "vote"     a result whose bytes are a JSON vote
RpcAnswers ==
  {"network", "http", "rpcError", "empty", "garbled", "null", "vote"}

NotReturned == [recorded |-> FALSE, verified |-> FALSE, set |-> FALSE]

Returns(rec, ver) == [recorded |-> rec, verified |-> ver, set |-> TRUE]

\* one pass through the loop body with answer ans at attempt a
\* (voting-utils.ts:640-728): the value returned, or NotReturned when the
\* body continues
Attempt(a, ans) ==
  CASE ans = "http"     -> IF a < maxRetries THEN NotReturned
                           ELSE Returns(FALSE, FALSE)
    [] ans = "network"  -> IF a < maxRetries THEN NotReturned
                           ELSE Returns(FALSE, FALSE)
    [] ans = "rpcError" -> IF a < maxRetries THEN NotReturned
                           ELSE Returns(FALSE, TRUE)
    [] ans = "empty"    -> IF a < maxRetries THEN NotReturned
                           ELSE Returns(FALSE, TRUE)
    [] ans = "garbled"  -> Returns(FALSE, FALSE)
    [] ans = "null"     -> IF a < maxRetries THEN NotReturned
                           ELSE Returns(FALSE, TRUE)
    [] ans = "vote"     -> Returns(TRUE, TRUE)

\* the call begins: attempt = 0 passes the loop test
CheckVoteRecordedOnChain ==
  /\ attempt = -1
  /\ attempt' = 0
  /\ UNCHANGED <<answers, returned>>

\* the node answers the query of the current attempt
QueryAnswered(ans) ==
  /\ attempt \in 0..maxRetries
  /\ ~returned.set
  /\ answers' = Append(answers, ans)
  /\ returned' = Attempt(attempt, ans)
  /\ attempt' = IF returned'.set THEN attempt ELSE attempt + 1

(***************************************************************************)
(* Part 5.  The routes that call the agent SDK themselves,                 *)
(* routes/vote.ts:152-168 and 228-252                                      *)
(***************************************************************************)
NoRequest == [route |-> "-", pc |-> "idle", call |-> "-"]

\* the calls a route makes to the agent SDK, in order: GET /agent-info
\* awaits agentAccountId() then agentInfo() (154-155), GET /balance awaits
\* agent("getBalance") then agentAccountId() (230-231)
RouteCalls(route) ==
  IF route = "agent-info" THEN <<"agentAccountId", "agentInfo">>
  ELSE <<"getBalance", "agentAccountId">>

\* the requests whose handler has a call to the signer in flight
DirectCalls == {r \in ReqIds : requests[r].pc \in {"first", "second"}}

\* a request to one of the two routes arrives: its handler issues its
\* first call
RouteRequest(r, route) ==
  /\ requests[r].pc = "idle"
  /\ \A q \in ReqIds : q < r => requests[q].pc # "idle"
  /\ requests' = [requests EXCEPT ![r] =
                    [route |-> route, pc |-> "first",
                     call |-> RouteCalls(route)[1]]]

\* the call in flight of handler r returns: the second call is issued, or
\* the response is sent
RouteCallReturns(r) ==
  /\ r \in DirectCalls
  /\ requests' = [requests EXCEPT ![r] =
                    IF @.pc = "first"
                    THEN [@ EXCEPT !.pc = "second",
                                   !.call = RouteCalls(requests[r].route)[2]]
                    ELSE [@ EXCEPT !.pc = "done", !.call = "-"]]

\* the call in flight of handler r throws: the catch block answers 500
RouteCallThrows(r) ==
  /\ r \in DirectCalls
  /\ requests' = [requests EXCEPT ![r] = [@ EXCEPT !.pc = "failed",
                                                   !.call = "-"]]

(***************************************************************************)
(* Part 6.  The message handler of the event stream, part_000:599-641,     *)
(* with the helpers of part_000:516-549                                    *)
(***************************************************************************)
\* the events of a message, by what the handler does with them:
\*   "approve"   a proposal_approve event with a proposal id
\*   "other"     an event of another type (line 635)
\*   "noId"      an event without proposal id or without type (line 622)
\*   "malformed" an event on which a helper throws: extractProposalId on an
\*               array element that is null or on a proposal_id that is
\*               null (516-520), extractProposalDetails on a
\*               voting_start_time_sec that BigInt rejects (530-535)
EventKinds == {"approve", "other", "noId", "malformed"}

\* the parsed messages: arrays of 1..MaxEvents events
Messages ==
  UNION {[1..n -> EventKinds] : n \in 1..MaxEvents}

\* the frames that never reach the loop: text that starts with neither
\* brace nor bracket (line 609), and text that JSON.parse rejects (614)
DroppedFrames == {"nonJson", "badJson"}

NoHandler == [pc |-> "idle", frame |-> "-", events |-> <<>>, i |-> 0,
              seen |-> {}, votes |-> {}, reports |-> 0, escaped |-> FALSE]

\* a frame arrives that is no JSON: the handler returns at line 611, or
\* JSON.parse throws into the catch block of line 638
FrameDropped(f) ==
  /\ handler.pc = "idle"
  /\ handler' = [NoHandler EXCEPT !.pc = "done", !.frame = f,
                                  !.reports = IF f = "badJson" THEN 1 ELSE 0]

IsApprovalBySubstring(k) == k \in {"approve", "other"}

\* the test of lines 628-631: the type is one of the two approval names
IsApproval(k) == k = "approve"

\* a message arrives and parses: the handler enters its loop
MessageArrives(evs) ==
  /\ handler.pc = "idle"
  /\ handler' = [NoHandler EXCEPT !.pc = "loop", !.frame = "json",
                                  !.events = evs, !.i = 1]

\* the handler after event i, at the loop test
Continue(h) ==
  IF h.i < Len(h.events) THEN [h EXCEPT !.i = @ + 1]
  ELSE [h EXCEPT !.pc = "done"]

\* one pass through the loop body up to its await, lines 618-637.  A throw
\* of a helper leaves the loop for the catch block of line 638, which
\* reports it and ends the handler.
LoopBody ==
  /\ handler.pc = "loop"
  /\ LET k == handler.events[handler.i]
         h == [handler EXCEPT !.seen = @ \cup {handler.i}]
     IN handler' =
          CASE k = "malformed" -> [h EXCEPT !.pc = "done", !.reports = @ + 1]
            [] k = "noId"      -> Continue(h)
            [] IsApproval(k)   -> [h EXCEPT !.pc = "handleVote"]
            [] OTHER           -> Continue(h)

\* handleVote returns after its work, part_000:383-508
HandleVoteReturns ==
  /\ handler.pc = "handleVote"
  /\ handler' = Continue([handler EXCEPT !.pc = "loop",
                                         !.votes = @ \cup {handler.i}])

\* something throws inside handleVote: its own catch block reports it
\* (part_000:510-512) and handleVote returns
HandleVoteFails ==
  /\ handler.pc = "handleVote"
  /\ handler' = Continue([handler EXCEPT !.pc = "loop",
                                         !.votes = @ \cup {handler.i},
                                         !.reports = @ + 1])

(***************************************************************************)
(* Part 7.  parseAIResponse, voter.ts:196-251                              *)
(*                                                                         *)
(* A response text is a sequence of tokens: the braces, a member           *)
(* "selected_option": "<option>" (written sel:<option>), the words         *)
(* Against, for and abstain, and a word that holds none of them.           *)
(***************************************************************************)
Tokens == {"{", "}", "sel:Against", "Against", "for", "abstain", "text"}

\* the response texts, the empty one of voter.ts:184 included
Texts == UNION {[1..n -> Tokens] : n \in 0..MaxTokens}

NoParse == [pc |-> "idle", text |-> <<>>, selectedOption |-> NoOption,
            reason |-> "-"]

\* String.prototype.toLowerCase on the tokens
LowerCase(tok) ==
  CASE tok = "Against"     -> "against"
    [] tok = "sel:Against" -> "sel:against"
    [] OTHER               -> tok

\* whether the lower-cased token holds the word as a substring
TokenHolds(tok, word) ==
  \/ LowerCase(tok) = word
  \/ LowerCase(tok) = "sel:against" /\ word = "against"

\* text.includes(word) on the lower-cased text, voter.ts:232-240
TextIncludes(text, word) ==
  \E i \in 1..Len(text) : TokenHolds(text[i], word)

\* response.match(/\{[\s\S]*\}/), voter.ts:210: from the first opening
\* brace to the last closing brace after it, <<>> when there is none
JsonMatch(text) ==
  LET opens == {i \in 1..Len(text) : text[i] = "{"}
      first == IF opens = {} THEN 0
               ELSE CHOOSE i \in opens : \A j \in opens : i <= j
      closes == {i \in 1..Len(text) : text[i] = "}" /\ i > first}
      last == IF closes = {} THEN 0
              ELSE CHOOSE i \in closes : \A j \in closes : i >= j
  IN IF first = 0 \/ last = 0 THEN <<>>
     ELSE SubSeq(text, first, last)

\* whether JSON.parse accepts the matched text (voter.ts:212): an object
\* whose members are members
JsonParses(m) ==
  /\ Len(m) >= 2
  /\ m[1] = "{" /\ m[Len(m)] = "}"
  /\ \A i \in 2..(Len(m) - 1) : m[i] = "sel:Against"

\* normalizeOption of the selected_option of the parsed object,
\* voter.ts:200-216; NoOption when the object has no such member
SelectedOf(m) ==
  IF \E i \in 2..(Len(m) - 1) : m[i] = "sel:Against" THEN "Against"
  ELSE NoOption

\* the keyword scan of voter.ts:231-240
KeywordScan(text) ==
  IF TextIncludes(text, "against") THEN "Against"
  ELSE IF TextIncludes(text, "for") THEN "For"
  ELSE "Abstain"

\* parseAIResponse, voter.ts:196-251
ParseAIResponse(text) ==
  LET m == JsonMatch(text) IN
  IF m # <<>>
  THEN IF JsonParses(m)
       THEN [selectedOption |-> IF SelectedOf(m) # NoOption
                                THEN SelectedOf(m) ELSE "Abstain",
             reason |-> "Reason"]
       ELSE [selectedOption |-> "Abstain",
             reason |-> "Failed to parse AI response"]
  ELSE [selectedOption |-> KeywordScan(text),
        reason |-> "Could not parse structured JSON"]

\* the AI answers text and askAI parses it, voter.ts:183-185
AIResponds(text) ==
  /\ parse.pc = "idle"
  /\ LET r == ParseAIResponse(text)
     IN parse' = [pc |-> "parsed", text |-> text,
                  selectedOption |-> r.selectedOption, reason |-> r.reason]

(***************************************************************************)
(* Part 8.  The decision history under its size cap: saveResult,           *)
(* voter.ts:458-482, and the set of executeVote, voter.ts:270-274.         *)
(* Every call is for a proposal id not used before.                        *)
(***************************************************************************)
\* the calls made: enough to fill the history and go past the cap
MaxCalls == HistoryCap + 2

\* the proposal ids in the history
Keys(h) == {h[i].pid : i \in 1..Len(h)}

\* the sequence without its element at i
RemoveAt(h, i) == SubSeq(h, 1, i - 1) \o SubSeq(h, i + 1, Len(h))

\* entries.sort(by timestamp)[0], voter.ts:474-478: the sort is stable, so
\* among the entries with the least timestamp the first in insertion order
Oldest(h) ==
  CHOOSE i \in 1..Len(h) :
     /\ \A j \in 1..Len(h) : h[i].ts <= h[j].ts
     /\ \A j \in 1..(i - 1) : h[j].ts > h[i].ts

\* the eviction of voter.ts:472-480
Evict(h) == IF Len(h) > HistoryCap THEN RemoveAt(h, Oldest(h)) ELSE h

\* voteHistory.set(d.pid, d): a key that is there keeps its place
MapSet(h, d) ==
  IF d.pid \in Keys(h)
  THEN [i \in 1..Len(h) |-> IF h[i].pid = d.pid THEN d ELSE h[i]]
  ELSE Append(h, d)

\* trimExecutionResults, voter.ts:442-456, under the same cap: the oldest
\* by executedAt or attemptedAt goes
TrimExecutionResults(x) == Evict(x)

\* the status voteOnProposal (366-372) or the catch block of executeVote
\* (278-284) writes for decision d, with the time of the write
StatusOf(d, ok) == [pid |-> d.pid, ts |-> clock, ok |-> ok]

\* saveResult of a decision with a selected option (recordManualVote, or
\* evaluateProposal after the AI answered), and executeVote up to the
\* await of voteOnProposal
SaveDecision ==
  /\ nextPid <= MaxCalls
  /\ LET d == [pid |-> nextPid, ts |-> clock]
     IN /\ hist' = Evict(MapSet(hist, d))
        /\ inflight' = inflight \cup {d}
  /\ execs' = TrimExecutionResults(execs)
  /\ nextPid' = nextPid + 1
  /\ UNCHANGED clock

\* saveResult of the catch block of evaluateProposal, voter.ts:100-103: a
\* decision without option, which is not executed
SaveNoDecision ==
  /\ nextPid <= MaxCalls
  /\ hist' = Evict(MapSet(hist, [pid |-> nextPid, ts |-> clock]))
  /\ execs' = TrimExecutionResults(execs)
  /\ nextPid' = nextPid + 1
  /\ UNCHANGED <<clock, inflight>>

\* voteOnProposal of decision d writes its status and returns:
\* voter.ts:365-372, 270-274
VoteSucceeds(d) ==
  /\ d \in inflight
  /\ execs' = MapSet(execs, StatusOf(d, TRUE))
  /\ hist' = MapSet(hist, d)
  /\ inflight' = inflight \ {d}
  /\ UNCHANGED <<clock, nextPid>>

\* voteOnProposal of decision d throws: voter.ts:275-286
VoteFails(d) ==
  /\ d \in inflight
  /\ execs' = MapSet(execs, StatusOf(d, FALSE))
  /\ inflight' = inflight \ {d}
  /\ UNCHANGED <<hist, clock, nextPid>>

\* a millisecond passes
Tick ==
  /\ clock < MaxClock
  /\ clock' = clock + 1
  /\ UNCHANGED <<hist, inflight, nextPid, execs>>

(***************************************************************************)
(* Part 9.  What askAI sends, voter.ts:106-171, and what evaluateProposal  *)
(* records of the answer, voter.ts:92-103: two evaluations side by side,   *)
(* neither of a proposal with a stored decision.                           *)
(***************************************************************************)
\* the proposals handed to evaluateProposal; "-" is a field that is
\* missing or empty
AskedProposals ==
  [title : {"-", "Grants", "Audit"}, description : {"-", "Text"},
   status : {"Voting", "Approved"}, id : {1, 2}]

\* the answers of the AI: texts of at most two tokens
Responses == {t \in Texts : Len(t) <= 2}

NoAsk == [pc |-> "idle", props |-> <<>>, prompts |-> <<>>,
          response |-> <<>>, saved |-> <<>>]

PromptWithStatus(prop) ==
  <<IF prop.title = "-" THEN "No title" ELSE prop.title,
    IF prop.description = "-" THEN "No description" ELSE prop.description,
    prop.status>>

\* the part of the prompt that is not fixed text, voter.ts:150-151
Prompt(prop) ==
  <<IF prop.title = "-" THEN "No title" ELSE prop.title,
    IF prop.description = "-" THEN "No description" ELSE prop.description>>

\* the selectedOption evaluateProposal hands to saveResult for proposal
\* prop when the AI answers text, voter.ts:92-97 and 182-187
Recorded(prop, text) == ParseAIResponse(text).selectedOption

\* evaluateProposal is called for pr1 and for pr2: both reach the fetch
AskBoth(pr1, pr2) ==
  /\ ask.pc = "idle"
  /\ ask' = [NoAsk EXCEPT !.pc = "asked", !.props = <<pr1, pr2>>,
                          !.prompts = <<Prompt(pr1), Prompt(pr2)>>]

\* the AI gives both the answer text
AIAnswersBoth(text) ==
  /\ ask.pc = "asked"
  /\ ask' = [ask EXCEPT !.pc = "saved", !.response = text,
                        !.saved = <<Recorded(ask.props[1], text),
                                    Recorded(ask.props[2], text)>>]

\* the request fails for both (a response that is not ok, or no
\* response): the catch block of voter.ts:100-103 saves no option
AIFailsBoth ==
  /\ ask.pc = "asked"
  /\ ask' = [ask EXCEPT !.pc = "saved", !.saved = <<NoOption, NoOption>>]

QueueInit ==
  /\ isProcessing = FALSE
  /\ queue = <<>>
  /\ loops = {}
  /\ restartScheduled = 0
  /\ running = {}
  /\ nextOp = 1
  /\ outcome = [k \in OpIds |-> "none"]
  /\ reason = [k \in OpIds |-> NoMsg]
  /\ settleCalls = [k \in OpIds |-> 0]
  /\ attempts = [k \in OpIds |-> 0]
  /\ fails = [k \in OpIds |-> 0]
  /\ lastErr = [k \in OpIds |-> NoMsg]
  /\ timeouts = 0
  /\ late = [k \in OpIds |-> 0]
  /\ startLog = <<>>
  /\ doneLog = <<>>

VoterInit ==
  /\ voteHistory = [p \in Pids |-> 0]
  /\ executionResults = [p \in Pids |-> NoStatus]
  /\ objs = [t \in TaskIds |-> NoDecision]
  /\ tasks = [t \in TaskIds |-> Idle]
  /\ nextTask = 1
  /\ chainVoted = [p \in Pids |-> FALSE]
  /\ aiCalls = [p \in Pids |-> 0]
  /\ lastStep = NoStep
  /\ submissions = [p \in Pids |-> 0]
  /\ clears = 0
  /\ manuals = FALSE

MonitorInit ==
  /\ eventClient = 0
  /\ isConnecting = FALSE
  /\ reconnectAttempts = 0
  /\ socks = [s \in SockIds |-> "none"]
  /\ nextSock = 1
  /\ started = FALSE
  /\ polls = [h \in HandlerIds |-> NoPoll]
  /\ nextPoll = 1
  /\ openLog = [s \in SockIds |-> "-"]

CheckInit ==
  /\ attempt = -1
  /\ answers = <<>>
  /\ returned = NotReturned

RoutesInit == requests = [r \in ReqIds |-> NoRequest]

HandlerInit == handler = NoHandler

ParseInit == parse = NoParse

AskInit == ask = NoAsk

HistoryInit ==
  /\ hist = <<>>
  /\ clock = 1
  /\ inflight = {}
  /\ nextPid = 1
  /\ execs = <<>>

Init ==
  /\ QueueInit /\ VoterInit /\ MonitorInit /\ CheckInit /\ RoutesInit
  /\ HandlerInit /\ ParseInit /\ HistoryInit /\ AskInit

\* The call queue: operations that fulfil, reject with an Error, or hang
QNext ==
  \/ Enqueue /\ UNCHANGED <<vvars, mvars, cvars, rvars, evars, pvars, hvars, avars>>
  \/ \E l \in loops : CallSucceeds(l) /\ UNCHANGED <<vvars, mvars, cvars, rvars, evars, pvars, hvars, avars>>
  \/ \E l \in loops : \E msg \in OpErrors : CallFails(l, msg) /\ UNCHANGED <<vvars, mvars, cvars, rvars, evars, pvars, hvars, avars>>
  \/ \E l \in loops : CallTimesOut(l) /\ UNCHANGED <<vvars, mvars, cvars, rvars, evars, pvars, hvars, avars>>
  \/ \E a \in running : LateSettle(a) /\ UNCHANGED <<vvars, mvars, cvars, rvars, evars, pvars, hvars, avars>>
  \/ \E l \in loops : RetryDelayDone(l) /\ UNCHANGED <<vvars, mvars, cvars, rvars, evars, pvars, hvars, avars>>
  \/ \E l \in loops : PaceDone(l) /\ UNCHANGED <<vvars, mvars, cvars, rvars, evars, pvars, hvars, avars>>

\* ... or reject with a reason that has no message
QThrowNext ==
  \/ QNext
  \/ \E l \in loops : CallFailsOpaque(l) /\ UNCHANGED <<vvars, mvars, cvars, rvars, evars, pvars, hvars, avars>>
  \/ Restart /\ UNCHANGED <<vvars, mvars, cvars, rvars, evars, pvars, hvars, avars>>

QSpec == Init /\ [][QNext]_vars

QThrowSpec == Init /\ [][QThrowNext]_vars

\* the attempt in flight settles, or the 30 s timer of callWithTimeout fires
AttemptEnds ==
  \E l \in loops :
     /\ \/ CallSucceeds(l)
        \/ \E msg \in OpErrors : CallFails(l, msg)
        \/ CallTimesOut(l)
     /\ UNCHANGED <<vvars, mvars, cvars, rvars, evars, pvars, hvars, avars>>

\* the 500 ms or the 200 ms timer of the drain loop fires
DelayEnds ==
  \E l \in loops : (RetryDelayDone(l) \/ PaceDone(l)) /\ UNCHANGED <<vvars, mvars, cvars, rvars, evars, pvars, hvars, avars>>

\* The call queue when every attempt settles or reaches its timeout and
\* the timers of the event loop fire.
QLiveSpec ==
  /\ Init
  /\ [][QNext]_vars
  /\ WF_vars(AttemptEnds)
  /\ WF_vars(DelayEnds)

\* The decision engine and its callers
Next ==
  \/ \E p \in Pids : \E prop \in PropInputs :
        VoteRequest(p, prop) /\ UNCHANGED <<qvars, mvars, cvars, rvars, evars, pvars, hvars, avars>>
  \/ \E p \in Pids : \E prop \in PropInputs :
        ApprovalEvent(p, prop) /\ UNCHANGED <<qvars, mvars, cvars, rvars, evars, pvars, hvars, avars>>
  \/ \E p \in Pids : \E opt \in Choices : \E prop \in PropInputs :
        RecordManualVote(p, opt, prop) /\ UNCHANGED <<qvars, mvars, cvars, rvars, evars, pvars, hvars, avars>>
  \/ ClearHistory /\ UNCHANGED <<qvars, mvars, cvars, rvars, evars, pvars, hvars, avars>>
  \/ \E t \in TaskIds : AIFails(t) /\ UNCHANGED <<qvars, mvars, cvars, rvars, evars, pvars, hvars, avars>>
  \/ \E t \in TaskIds : \E opt \in Choices :
        AIReturns(t, opt) /\ UNCHANGED <<qvars, mvars, cvars, rvars, evars, pvars, hvars, avars>>
  \/ \E t \in TaskIds : FetchFails(t) /\ UNCHANGED <<qvars, mvars, cvars, rvars, evars, pvars, hvars, avars>>
  \/ \E t \in TaskIds : \E prop \in PropInputs :
        FetchDone(t, prop) /\ UNCHANGED <<qvars, mvars, cvars, rvars, evars, pvars, hvars, avars>>
  \/ \E t \in TaskIds : \E ans \in {"recorded", "absent", "unverified"} :
        CheckDone(t, ans) /\ UNCHANGED <<qvars, mvars, cvars, rvars, evars, pvars, hvars, avars>>
  \/ \E t \in TaskIds : ProofFails(t) /\ UNCHANGED <<qvars, mvars, cvars, rvars, evars, pvars, hvars, avars>>
  \/ \E t \in TaskIds : ProofDone(t) /\ UNCHANGED <<qvars, mvars, cvars, rvars, evars, pvars, hvars, avars>>
  \/ \E t \in TaskIds : \E ans \in {"tx", "notx", "Already voted", "error"}
                                      \X BOOLEAN :
        SubmitDone(t, ans) /\ UNCHANGED <<qvars, mvars, cvars, rvars, evars, pvars, hvars, avars>>
  \/ \E t \in TaskIds : \E ans \in {"recorded", "absent", "unverified"} :
        VerifyDone(t, ans) /\ UNCHANGED <<qvars, mvars, cvars, rvars, evars, pvars, hvars, avars>>

Spec == Init /\ [][Next]_vars

\* the event monitor and its sockets
MonitorNext ==
  \/ Startup /\ UNCHANGED <<qvars, vvars, cvars, rvars, evars, pvars, hvars, avars>>
  \/ \E s \in SockIds : SocketOpens(s) /\ UNCHANGED <<qvars, vvars, cvars, rvars, evars, pvars, hvars, avars>>
  \/ \E s \in SockIds : SocketError(s) /\ UNCHANGED <<qvars, vvars, cvars, rvars, evars, pvars, hvars, avars>>
  \/ \E s \in SockIds : SocketClosed(s) /\ UNCHANGED <<qvars, vvars, cvars, rvars, evars, pvars, hvars, avars>>
  \/ \E s \in SockIds : \E p \in Pids :
        Message(s, p) /\ UNCHANGED <<qvars, vvars, cvars, rvars, evars, pvars, hvars, avars>>

MonitorSpec == Init /\ [][MonitorNext]_vars

\* a socket that is closing or aborting emits its close event
CloseEvent ==
  \E s \in SockIds :
     /\ socks[s] \in {"closing", "aborting"}
     /\ SocketClosed(s)
     /\ UNCHANGED <<qvars, vvars, cvars, rvars, evars, pvars, hvars, avars>>

\* the event monitor when every socket that fails does so after its
\* construction, and every socket on its way to closed gets there
MonitorAsyncLiveSpec == Init /\ [][MonitorNext]_vars /\ WF_vars(CloseEvent)

\* ... and when the constructor of the socket may throw as well
MonitorLiveNext ==
  \/ MonitorNext
  \/ StartupCreateFails /\ UNCHANGED <<qvars, vvars, cvars, rvars, evars, pvars, hvars, avars>>
  \/ \E s \in SockIds :
        SocketClosedCreateFails(s) /\ UNCHANGED <<qvars, vvars, cvars, rvars, evars, pvars, hvars, avars>>

CloseEventEitherWay ==
  \E s \in SockIds :
     /\ socks[s] \in {"closing", "aborting"}
     /\ SocketClosed(s) \/ SocketClosedCreateFails(s)
     /\ UNCHANGED <<qvars, vvars, cvars, rvars, evars, pvars, hvars, avars>>

MonitorLiveSpec ==
  Init /\ [][MonitorLiveNext]_vars /\ WF_vars(CloseEventEitherWay)

\* the approval events of one connection that stays open, and the
\* evaluations and votes they lead to.  A running handleVote shares no
\* variable with the sockets, so their failures are left to MonitorSpec.
\* The proposal a handler passes on has options and a snapshot, so
\* voteOnProposal (voter.ts:316-322) does not fetch it again.
EventNext ==
  \/ Startup /\ UNCHANGED <<qvars, vvars, cvars, rvars, evars, pvars, hvars, avars>>
  \/ \E s \in SockIds : SocketOpens(s) /\ UNCHANGED <<qvars, vvars, cvars, rvars, evars, pvars, hvars, avars>>
  \/ \E s \in SockIds : \E p \in Pids :
        Message(s, p) /\ UNCHANGED <<qvars, vvars, cvars, rvars, evars, pvars, hvars, avars>>
  \/ \E h \in HandlerIds : PollFails(h) /\ UNCHANGED <<qvars, vvars, cvars, rvars, evars, pvars, hvars, avars>>
  \/ \E h \in HandlerIds : \E prop \in FetchedProps :
        PollAnswer(h, prop) /\ UNCHANGED <<qvars, cvars, rvars, evars, pvars, hvars, avars>>
  \/ \E t \in TaskIds : AIFails(t) /\ UNCHANGED <<qvars, mvars, cvars, rvars, evars, pvars, hvars, avars>>
  \/ \E t \in TaskIds : \E opt \in Choices :
        AIReturns(t, opt) /\ UNCHANGED <<qvars, mvars, cvars, rvars, evars, pvars, hvars, avars>>
  \/ \E t \in TaskIds : \E ans \in {"recorded", "absent", "unverified"} :
        CheckDone(t, ans) /\ UNCHANGED <<qvars, mvars, cvars, rvars, evars, pvars, hvars, avars>>
  \/ \E t \in TaskIds : ProofFails(t) /\ UNCHANGED <<qvars, mvars, cvars, rvars, evars, pvars, hvars, avars>>
  \/ \E t \in TaskIds : ProofDone(t) /\ UNCHANGED <<qvars, mvars, cvars, rvars, evars, pvars, hvars, avars>>
  \/ \E t \in TaskIds : \E ans \in {"tx", "notx", "Already voted", "error"}
                                      \X BOOLEAN :
        SubmitDone(t, ans) /\ UNCHANGED <<qvars, mvars, cvars, rvars, evars, pvars, hvars, avars>>
  \/ \E t \in TaskIds : \E ans \in {"recorded", "absent", "unverified"} :
        VerifyDone(t, ans) /\ UNCHANGED <<qvars, mvars, cvars, rvars, evars, pvars, hvars, avars>>

EventSpec == Init /\ [][EventNext]_vars

\* proposals of every status, with and without a snapshot
GateProps ==
  [status : Statuses, options : {"std"}, snapshot : BOOLEAN]

\* the execution path of the engine under proposals of every status: the
\* operator's votes and what voteOnProposal and castVote await
GateNext ==
  \/ \E p \in Pids : \E opt \in Choices : \E prop \in GateProps :
        RecordManualVote(p, opt, prop) /\ UNCHANGED <<qvars, mvars, cvars, rvars, evars, pvars, hvars, avars>>
  \/ \E t \in TaskIds : FetchFails(t) /\ UNCHANGED <<qvars, mvars, cvars, rvars, evars, pvars, hvars, avars>>
  \/ \E t \in TaskIds : \E prop \in GateProps :
        FetchDone(t, prop) /\ UNCHANGED <<qvars, mvars, cvars, rvars, evars, pvars, hvars, avars>>
  \/ \E t \in TaskIds : \E ans \in {"recorded", "absent", "unverified"} :
        CheckDone(t, ans) /\ UNCHANGED <<qvars, mvars, cvars, rvars, evars, pvars, hvars, avars>>
  \/ \E t \in TaskIds : ProofFails(t) /\ UNCHANGED <<qvars, mvars, cvars, rvars, evars, pvars, hvars, avars>>
  \/ \E t \in TaskIds : ProofDone(t) /\ UNCHANGED <<qvars, mvars, cvars, rvars, evars, pvars, hvars, avars>>
  \/ \E t \in TaskIds : \E ans \in {"tx", "notx", "Already voted", "error"}
                                      \X BOOLEAN :
        SubmitDone(t, ans) /\ UNCHANGED <<qvars, mvars, cvars, rvars, evars, pvars, hvars, avars>>
  \/ \E t \in TaskIds : \E ans \in {"recorded", "absent", "unverified"} :
        VerifyDone(t, ans) /\ UNCHANGED <<qvars, mvars, cvars, rvars, evars, pvars, hvars, avars>>

GateSpec == Init /\ [][GateNext]_vars

\* the call queue together with the routes that call the agent SDK
SignerNext ==
  \/ QNext
  \/ \E r \in ReqIds : \E route \in {"agent-info", "balance"} :
        RouteRequest(r, route) /\ UNCHANGED <<qvars, vvars, mvars, cvars, evars, pvars, hvars, avars>>
  \/ \E r \in ReqIds :
        RouteCallReturns(r) /\ UNCHANGED <<qvars, vvars, mvars, cvars, evars, pvars, hvars, avars>>
  \/ \E r \in ReqIds :
        RouteCallThrows(r) /\ UNCHANGED <<qvars, vvars, mvars, cvars, evars, pvars, hvars, avars>>

SignerSpec == Init /\ [][SignerNext]_vars

MessageNext ==
  \/ \E f \in DroppedFrames :
        FrameDropped(f) /\ UNCHANGED <<qvars, vvars, mvars, cvars, rvars, pvars, hvars, avars>>
  \/ \E evs \in Messages :
        MessageArrives(evs) /\ UNCHANGED <<qvars, vvars, mvars, cvars, rvars, pvars, hvars, avars>>
  \/ LoopBody /\ UNCHANGED <<qvars, vvars, mvars, cvars, rvars, pvars, hvars, avars>>
  \/ HandleVoteReturns /\ UNCHANGED <<qvars, vvars, mvars, cvars, rvars, pvars, hvars, avars>>
  \/ HandleVoteFails /\ UNCHANGED <<qvars, vvars, mvars, cvars, rvars, pvars, hvars, avars>>

MessageSpec == Init /\ [][MessageNext]_vars

ParseNext ==
  \E text \in Texts :
     AIResponds(text)
       /\ UNCHANGED <<qvars, vvars, mvars, cvars, rvars, evars, hvars, avars>>

ParseSpec == Init /\ [][ParseNext]_vars

HistoryNext ==
  \/ SaveDecision
       /\ UNCHANGED <<qvars, vvars, mvars, cvars, rvars, evars, pvars, avars>>
  \/ SaveNoDecision
       /\ UNCHANGED <<qvars, vvars, mvars, cvars, rvars, evars, pvars, avars>>
  \/ \E d \in inflight :
        VoteSucceeds(d)
          /\ UNCHANGED <<qvars, vvars, mvars, cvars, rvars, evars, pvars, avars>>
  \/ \E d \in inflight :
        VoteFails(d)
          /\ UNCHANGED <<qvars, vvars, mvars, cvars, rvars, evars, pvars, avars>>
  \/ Tick /\ UNCHANGED <<qvars, vvars, mvars, cvars, rvars, evars, pvars, avars>>

HistorySpec == Init /\ [][HistoryNext]_vars

AskNext ==
  \/ \E pr1 \in AskedProposals : \E pr2 \in AskedProposals :
        AskBoth(pr1, pr2)
          /\ UNCHANGED <<qvars, vvars, mvars, cvars, rvars, evars, pvars, hvars>>
  \/ \E text \in Responses :
        AIAnswersBoth(text)
          /\ UNCHANGED <<qvars, vvars, mvars, cvars, rvars, evars, pvars, hvars>>
  \/ AIFailsBoth
       /\ UNCHANGED <<qvars, vvars, mvars, cvars, rvars, evars, pvars, hvars>>

AskSpec == Init /\ [][AskNext]_vars

CheckNext ==
  \/ CheckVoteRecordedOnChain /\ UNCHANGED <<qvars, vvars, mvars, rvars, evars, pvars, hvars, avars>>
  \/ \E ans \in RpcAnswers :
        QueryAnswered(ans) /\ UNCHANGED <<qvars, vvars, mvars, rvars, evars, pvars, hvars, avars>>

CheckSpec == Init /\ [][CheckNext]_vars


(***************************************************************************)
(* Properties.  Part 1: the decision engine (Spec)                         *)
(***************************************************************************)

\* C1: for any interleaving of approval events and evaluate requests for
\* one proposal (no manual vote, no clearHistory), the AI is called at most
\* once for it and at most one vote submission for it is handed to the
\* signer.
C1_OneCallOneSubmission ==
  (clears = 0 /\ ~manuals) =>
     \A p \in Pids : aiCalls[p] <= 1 /\ submissions[p] <= 1

\* C2: a step that invokes voteOnProposal for a proposal whose execution
\* status is executed=true hands nothing to the call queue (no account-id
\* read, no vote submission) and the invocation ends in that step with the
\* error of line 301.
C2_ExecutedRefused ==
  [][\A p \in Pids :
       (lastStep'.voteOn = p /\ IsProposalExecuted(p)) =>
          /\ lastStep'.handed = {}
          /\ submissions' = submissions
          /\ \A t \in TaskIds : tasks[t].pc = "idle" => tasks'[t].pc = "idle"
          /\ executionResults'[p].err = "Proposal already voted"]_vars

C2_Witness ==
  \E p \in Pids :
     /\ lastStep.voteOn = p
     /\ executionResults[p].err = "Proposal already voted"
     /\ submissions[p] = 1

\* C3: once the execution status of a proposal is executed=true, no step
\* other than clearHistory makes it executed=false, and no step hands a
\* vote submission for it to the signer.
C3_ExecutedIsTerminal ==
  [][\A p \in Pids :
       (IsProposalExecuted(p) /\ clears' = clears) =>
          /\ IsProposalExecuted(p)'
          /\ submissions'[p] = submissions[p]]_vars

(***************************************************************************)
(* Properties.  Part 2: the call queue (QSpec, QThrowSpec)                 *)
(***************************************************************************)

\* C4: at most one operation started by the queue is still running at the
\* signer, attempts abandoned by the queue-level timeout included.
C4_OneRunning == Cardinality(running) <= 1

\* C5: at most one drain loop is active; a processQueue invocation (from
\* enqueue or from the deferred restart) that finds isProcessing set
\* dequeues nothing and starts nothing, the enqueued item joins the pending
\* list, and a non-empty pending list always has a loop running or a
\* restart scheduled to serve it.
C5_SingleFlight ==
  /\ [](/\ Cardinality(loops) <= 1
        /\ (isProcessing <=> loops # {})
        /\ (Len(queue) > 0 => (isProcessing \/ restartScheduled > 0)))
  /\ [][/\ (isProcessing /\ nextOp' # nextOp /\ outcome'[nextOp] = "pending")
            => /\ queue' = Append(queue, [id |-> nextOp, retryCount |-> 0])
               /\ UNCHANGED <<loops, running, attempts, isProcessing>>
        /\ (isProcessing /\ restartScheduled' < restartScheduled)
            => UNCHANGED <<queue, loops, running, attempts, isProcessing>>
       ]_vars

C5_Witness ==
  /\ restartScheduled > 0
  /\ Cardinality(loops) = 1
  /\ Len(queue) > 0
  /\ \E k \in OpIds : outcome[k] = "dropped"

\* C6: attempts start in enqueue order with every retry before any later
\* operation (the operation ids of the attempts started never decrease),
\* and the callers are answered in enqueue order.
C6_FifoWithRetryAtHead ==
  /\ \A i, j \in 1..Len(startLog) : i < j => startLog[i] <= startLog[j]
  /\ \A i, j \in 1..Len(doneLog) : i < j => doneLog[i] < doneLog[j]

\* three operations, the second failing twice with a transient message
C6_Witness ==
  /\ \A k \in 1..3 : outcome[k] = "resolved"
  /\ attempts[1] = 1 /\ attempts[2] = 3 /\ attempts[3] = 1
  /\ fails[2] = 2 /\ lastErr[2] = "Network timeout"
  /\ startLog = <<1, 2, 2, 2, 3>>
  /\ doneLog = <<1, 2, 3>>

C8_SettledOnce ==
  /\ [](\A k \in OpIds : settleCalls[k] <= 1)
  /\ [][/\ \A k \in OpIds :
             outcome[k] \in {"resolved", "rejected"} =>
                outcome'[k] = outcome[k] /\ reason'[k] = reason[k]
        /\ timeouts' # timeouts =>
             \E k \in OpIds : fails'[k] = fails[k] + 1
                              /\ lastErr'[k] = "Operation timed out"
        /\ late' # late =>
             UNCHANGED <<outcome, reason, settleCalls, queue, isProcessing,
                         loops, attempts, fails>>
       ]_vars

\* the attempt timed out, the retry resolved the caller, the abandoned
\* call completed afterwards
C8_Witness ==
  \E k \in OpIds :
     /\ late[k] > 0
     /\ outcome[k] = "resolved"
     /\ settleCalls[k] = 1
     /\ attempts[k] = 2

\* C9: the pending list never holds more items than the maximum depth.
C9_QueueBounded == Len(queue) <= MAX_QUEUE_SIZE

\* C10: an enqueue that finds the pending list at the maximum depth fails
\* with the queue-full error and leaves the pending list (retry counters
\* included), isProcessing and the loop unchanged; its operation is never
\* invoked.
C10_QueueFull ==
  /\ [](\A k \in OpIds :
          outcome[k] = "full" =>
             /\ attempts[k] = 0
             /\ \A i \in 1..Len(queue) : queue[i].id # k
             /\ \A l \in loops : l.item.id # k
             /\ \A a \in running : a.id # k)
  /\ [][(nextOp' # nextOp /\ Len(queue) >= MAX_QUEUE_SIZE) =>
          /\ outcome'[nextOp] = "full"
          /\ UNCHANGED <<queue, isProcessing, loops, running, attempts,
                         startLog>>
       ]_vars

C10_Witness ==
  \E k \in OpIds :
     /\ outcome[k] = "full"
     /\ Len(queue) = MAX_QUEUE_SIZE
     /\ isProcessing


C13_DecisionImmutable ==
  [][\A p \in Pids :
       LET d == voteHistory[p] IN
       (d # 0 /\ objs[d].exec = "tx" /\ clears' = clears)
       => (voteHistory'[p] = d /\ objs'[d] = objs[d])]_vars

\* C14: every execution status with alreadyVoted=true has success=true and
\* executed=true.
C14_AlreadyVotedIsSuccess ==
  \A p \in Pids :
     executionResults[p].alreadyVoted =>
        (executionResults[p].success /\ executionResults[p].executed)

\* C15: a step records executed=true, success=true only with a
\* transaction reference, or with the chain's Already voted answer, or
\* when the vote-recorded query verified the vote on chain.
C15_ExecutedOnlyWhenConfirmed ==
  [][\A p \in Pids :
       (/\ executionResults'[p] # executionResults[p]
        /\ executionResults'[p].executed /\ executionResults'[p].success)
       => \/ executionResults'[p].tx
          \/ executionResults'[p].alreadyVoted
          \/ lastStep'.verify = "recorded"]_vars

\* C16: when the stored decision has a selected option and the execution
\* status is executed=false after a failed execution, an approval event or
\* an evaluate call for the proposal invokes voteOnProposal again.
C16_FailedExecutionRetried ==
  [][\A p \in Pids :
       LET d == voteHistory[p] IN
       (/\ lastStep'.call \in {"evaluate", "event"} /\ lastStep'.pid = p
        /\ nextTask' # nextTask
        /\ d # 0 /\ objs[d].opt \in VoteOptions
        /\ tasks[d].pc = "idle"
        /\ executionResults[p].set /\ ~executionResults[p].executed)
       => lastStep'.voteOn = p]_vars

\* every socket of the monitor has emitted its close event and the startup
\* call has been made
Stopped == started /\ \A s \in SockIds : socks[s] \in {"none", "closed"}

C18_SingleConnection ==
  /\ Cardinality(Live(socks)) <= 1
  /\ Live(socks) \subseteq {eventClient}
  /\ isConnecting => (eventClient # 0 /\ socks[eventClient] = "connecting")
  /\ StartEventStream(eventClient, TRUE, socks, nextSock)
       = [ec |-> eventClient, conn |-> TRUE, sk |-> socks, made |-> 0]

\* a reconnect is in progress after an error on the open socket: the old
\* socket has closed and the new one is the only live one
C18_Witness ==
  /\ isConnecting
  /\ eventClient >= 2
  /\ socks[eventClient] = "connecting"
  /\ socks[eventClient - 1] = "closed"
  /\ reconnectAttempts = 1
  /\ Live(socks) = {eventClient}

\* C19: a handler of an approval event makes at most 5 fetch attempts; an
\* attempt that fails or yields a proposal that is not ready leaves the
\* voter untouched and is followed by the next attempt, or, when it was the
\* fifth, by the end of the handler: no AI call, no decision, no signer
\* call.  The AI is called from the event path only in the step in which a
\* handler obtains a proposal with options and a snapshot, and for that
\* proposal.
C19_ReadinessPolling ==
  /\ [](\A h \in HandlerIds : polls[h].attempt \in 0..5)
  /\ [][/\ \A h \in HandlerIds :
             (polls[h].pc = "fetch" /\ polls'[h] # polls[h]
              /\ polls'[h].outcome # "passed")
             => /\ UNCHANGED vvars
                /\ IF polls[h].attempt < 5
                   THEN /\ polls'[h].pc = "fetch"
                        /\ polls'[h].attempt = polls[h].attempt + 1
                   ELSE /\ polls'[h].pc = "done"
                        /\ polls'[h].outcome = "skipped"
        /\ \A p \in Pids :
             aiCalls'[p] # aiCalls[p]
             => /\ \E h \in HandlerIds :
                     /\ polls[h].pc = "fetch" /\ polls[h].pid = p
                     /\ polls'[h].outcome = "passed"
                /\ \E t \in TaskIds :
                     /\ tasks[t].pc = "idle" /\ tasks'[t].pc = "ai"
                     /\ tasks'[t].pid = p
                     /\ tasks'[t].prop.snapshot
                     /\ tasks'[t].prop.options # "-"]_vars

\* a handler has ended after five attempts without a ready proposal, and
\* nothing has been evaluated, stored or submitted
C19_Witness ==
  \E h \in HandlerIds :
     /\ polls[h].pc = "done" /\ polls[h].outcome = "skipped"
     /\ polls[h].attempt = 5
     /\ \A p \in Pids : aiCalls[p] = 0 /\ voteHistory[p] = 0
     /\ \A t \in TaskIds : tasks[t].pc = "idle"
     /\ nextTask = 1

\* the answers with which a query has failed rather than told whether the
\* vote exists
ErrorAnswers == {"network", "http", "rpcError", "garbled"}

\* C20: a call makes at most 3 queries; when every query failed it returns
\* {recorded:false, verified:false}; at the first query that yields a vote
\* it returns {recorded:true, verified:true} and makes no further query.
C20_VerifyVoteRecorded ==
  /\ Len(answers) <= 3
  /\ \A i \in 1..Len(answers) :
        answers[i] = "vote" =>
           (i = Len(answers) /\ returned = Returns(TRUE, TRUE))
  /\ (returned.set /\ \A i \in 1..Len(answers) : answers[i] \in ErrorAnswers)
        => returned = Returns(FALSE, FALSE)

\* the answers that say the account has no vote on the proposal
NoVoteAnswers == {"empty", "null"}

\* C21: a call returns {recorded:false, verified:true} only when every one
\* of its queries was answered with no vote; after a query that failed
\* (network, status, RPC error, unparsable bytes) it does not return that.
C21_AbsentOnlyIfAllAbsent ==
  returned = Returns(FALSE, TRUE)
     => \A i \in 1..Len(answers) : answers[i] \in NoVoteAnswers

\* the proposal the latest step's voteOnProposal worked on
StepPid == IF lastStep.voteOn # 0 THEN lastStep.voteOn ELSE lastStep.pid

\* the error the status gate has for a status, as the specification words it
GateError(st) ==
  CASE st = "Approved" -> "Voting has not started yet"
    [] st = "Finished" -> "Voting has already ended"
    [] OTHER           -> "Cannot vote on proposal: status"

\* C22 as stated: a step in which voteOnProposal has the proposal to vote
\* with and its status is present and not Voting hands nothing to the call
\* queue, submits nothing, and records a failure with the error of that
\* status; with a status absent or Voting the step records no status error.
C22_StatusGate ==
  [][lastStep'.status # "none" =>
       LET p == StepPid' IN
       IF lastStep'.status \in {"-", "Voting"}
       THEN executionResults'[p] # executionResults[p]
               => executionResults'[p].err \notin
                     {GateError("Approved"), GateError("Finished"),
                      GateError("Rejected")}
       ELSE /\ lastStep'.handed = {}
            /\ submissions' = submissions
            /\ executionResults'[p].set
            /\ ~executionResults'[p].executed
            /\ ~executionResults'[p].success
            /\ executionResults'[p].err = GateError(lastStep'.status)]_vars

\* C22 amended: the above for a proposal that is not marked executed, where
\* a status absent or Voting moreover lets the step go on to the read of
\* the account id; for a proposal marked executed the step is refused with
\* "already voted" whatever the status, and hands nothing to the queue.
C22_StatusGateUnlessExecuted ==
  [][lastStep'.status # "none" =>
       LET p == StepPid' IN
       IF executionResults[p].executed /\ lastStep'.voteOn # 0
       THEN /\ lastStep'.handed = {}
            /\ submissions' = submissions
            /\ executionResults'[p].err = "Proposal already voted"
       ELSE IF lastStep'.status \in {"-", "Voting"}
       THEN /\ lastStep'.handed = {"accountId"}
            /\ submissions' = submissions
            /\ executionResults' = executionResults
       ELSE /\ lastStep'.handed = {}
            /\ submissions' = submissions
            /\ executionResults'[p].set
            /\ ~executionResults'[p].executed
            /\ ~executionResults'[p].success
            /\ executionResults'[p].err = GateError(lastStep'.status)]_vars

\* the gate has just refused a proposal whose voting has ended, which was
\* fetched because the one passed had no snapshot; nothing was submitted
C22_Witness ==
  /\ lastStep.status = "Finished"
  /\ lastStep.voteOn = 0
  /\ lastStep.handed = {}
  /\ executionResults[StepPid].err = "Voting has already ended"
  /\ ~executionResults[StepPid].executed
  /\ submissions[StepPid] = 0

\* C23: the step in which the AI call of an evaluation fails stores a
\* decision with no selected option and the error as its reason, leaves
\* the execution statuses as they are, hands nothing to the call queue and
\* submits nothing; and only an invocation whose decision has a selected
\* option ever executes or submits a vote.
C23_AIFailureIsNoDecision ==
  /\ [](\A t \in TaskIds :
          tasks[t].pc \in {"fetch", "check", "proof", "submit", "verify"}
             => objs[t].opt \in VoteOptions)
  /\ [][/\ \A t \in TaskIds :
             (tasks[t].pc = "ai" /\ tasks'[t].pc = "idle"
              /\ lastStep'.voteOn = 0)
             => /\ voteHistory'[tasks[t].pid] = t
                /\ objs'[t].opt = NoOption
                /\ objs'[t].reasons = <<"AI evaluation error">>
                /\ objs'[t].exec = "-"
                /\ executionResults' = executionResults
                /\ lastStep'.handed = {}
                /\ submissions' = submissions
        /\ \A p \in Pids :
             submissions'[p] # submissions[p]
             => \E t \in TaskIds :
                   /\ tasks[t].pid = p /\ tasks[t].pc = "proof"
                   /\ objs[t].opt \in VoteOptions]_vars

\* an evaluation has ended with an AI failure: the history holds a
\* decision without option, and nothing was executed or submitted
C23_Witness ==
  \E p \in Pids :
     /\ voteHistory[p] # 0
     /\ objs[voteHistory[p]].opt = NoOption
     /\ objs[voteHistory[p]].reasons = <<"AI evaluation error">>
     /\ ~executionResults[p].set
     /\ submissions[p] = 0
     /\ aiCalls[p] = 1
     /\ \A t \in TaskIds : tasks[t].pc = "idle"

\* C24: every call to the signer is an attempt of a queue operation: no
\* handler has a call of its own in flight, and so none runs while an
\* attempt of the queue is in flight.
C24_SignerCallsQueued ==
  /\ DirectCalls = {}
  /\ ~(DirectCalls # {} /\ running # {})

\* C25: no exception leaves the message handler; and when the handler has
\* ended, every event of the message was looked at and every approval
\* event among them was handed to handleVote, whatever failed on the way.
C25_EventFaultIsolation ==
  /\ ~handler.escaped
  /\ handler.pc = "done" =>
        /\ handler.seen = 1..Len(handler.events)
        /\ handler.votes =
             {i \in 1..Len(handler.events) : handler.events[i] = "approve"}

\* a JSON object can be parsed from the text
HasJsonObject(text) == JsonMatch(text) # <<>> /\ JsonParses(JsonMatch(text))

\* C26: for every response text from which no JSON object can be parsed
\* the parser selects Against if the text holds "against", otherwise For if
\* it holds "for", otherwise Abstain, whatever the case of the letters.
C26_KeywordFallback ==
  (parse.pc = "parsed" /\ ~HasJsonObject(parse.text))
     => parse.selectedOption =
           IF \E i \in 1..Len(parse.text) :
                 parse.text[i] \in {"Against", "sel:Against"}
           THEN "Against"
           ELSE IF \E i \in 1..Len(parse.text) : parse.text[i] = "for"
           THEN "For"
           ELSE "Abstain"

\* C27: a recordManualVote call asks the AI nothing and stores a decision
\* with the option and the reason it was given; when the proposal is marked
\* executed or the proposal it was given has a status that does not allow
\* voting, it hands nothing to the call queue and submits nothing; and when
\* its execution succeeds, the status says executed and the decision it
\* stored is in the history with the execution result attached.
C27_ManualVote ==
  /\ [](\A t \in TaskIds : tasks[t].kind = "manual" => tasks[t].pc # "ai")
  /\ [][/\ \A p \in Pids :
             (lastStep'.call = "manual" /\ lastStep'.pid = p)
             => /\ aiCalls' = aiCalls
                /\ voteHistory'[p] # 0
                /\ objs'[voteHistory'[p]].opt \in Choices
                /\ objs'[voteHistory'[p]].reasons[1] = "Manual vote"
                /\ (\/ IsProposalExecuted(p)
                    \/ lastStep'.status \in {"Approved", "Finished",
                                             "Rejected"})
                   => /\ lastStep'.handed = {}
                      /\ submissions' = submissions
                      /\ tasks'[voteHistory'[p]].pc = "idle"
        /\ \A t \in TaskIds :
             (/\ tasks[t].kind = "manual"
              /\ tasks[t].pc \in {"submit", "verify"}
              /\ tasks'[t].pc = "idle"
              /\ executionResults'[tasks[t].pid].success)
             => /\ executionResults'[tasks[t].pid].executed
                /\ voteHistory'[tasks[t].pid] = t
                /\ objs'[t].exec \in {"tx", "notx", "already"}
                /\ objs'[t].opt = objs[t].opt
                /\ objs'[t].opt \in Choices
                /\ objs'[t].reasons[1] = "Manual vote"]_vars

\* a manual vote has been executed: the stored decision is the operator's,
\* with a transaction reference, and the AI was never asked
C27_Witness ==
  \E p \in Pids :
     /\ manuals
     /\ aiCalls[p] = 0
     /\ voteHistory[p] # 0
     /\ objs[voteHistory[p]].exec = "tx"
     /\ objs[voteHistory[p]].reasons[1] = "Manual vote"
     /\ objs[voteHistory[p]].opt \in Choices
     /\ executionResults[p].executed /\ executionResults[p].success
     /\ submissions[p] = 1

\* the step ends the execution of invocation t without a vote: its
\* voteOnProposal has thrown, at once or after an await
ExecutionEndsInFailure(t) ==
  /\ tasks'[t].pc = "idle"
  /\ \/ /\ tasks[t].pc \in {"fetch", "check", "proof", "submit", "verify"}
        /\ ~executionResults'[tasks[t].pid].executed
     \/ /\ tasks[t].pc \in {"idle", "ai"}
        /\ lastStep'.voteOn # 0
        /\ voteHistory'[lastStep'.voteOn] = t
        /\ voteHistory[lastStep'.voteOn] # t
        /\ ~executionResults'[lastStep'.voteOn].executed

\* C28: a step in which an execution fails records the status
\* executed=false, success=false with the error message; a decision that
\* was awaiting its execution leaves the history as it is; and when the
\* decision is the stored one it is still stored under its proposal id,
\* with its selected option, one more reason, the failure, and no
\* execution result.
C28_FailureKeepsDecision ==
  [][\A t \in TaskIds :
       ExecutionEndsInFailure(t) =>
          LET p == IF tasks[t].pc \in {"idle", "ai"} THEN lastStep'.voteOn
                   ELSE tasks[t].pid
          IN
          /\ executionResults'[p].set
          /\ ~executionResults'[p].executed
          /\ ~executionResults'[p].success
          /\ ~executionResults'[p].tx
          /\ executionResults'[p].err # "none"
          /\ tasks[t].pc \notin {"idle", "ai"} =>
                /\ voteHistory' = voteHistory
                /\ voteHistory[p] = t =>
                      /\ objs'[t].opt = objs[t].opt
                      /\ objs'[t].reasons = Append(objs[t].reasons,
                                                   "Voting failed")
          /\ voteHistory'[p] = t =>
                /\ objs'[t].pid = p
                /\ objs'[t].opt \in VoteOptions
                /\ objs'[t].exec = "-"
                /\ objs'[t].reasons[Len(objs'[t].reasons)] = "Voting failed"]_vars

\* the submission of a stored decision has failed: the decision is still
\* stored with its option and the failure reason, and the status is a
\* failure
C28_Witness ==
  \E p \in Pids :
     /\ voteHistory[p] # 0
     /\ objs[voteHistory[p]].opt \in VoteOptions
     /\ objs[voteHistory[p]].exec = "-"
     /\ objs[voteHistory[p]].reasons = <<"Vote", "Voting failed">>
     /\ executionResults[p].set
     /\ ~executionResults[p].executed /\ ~executionResults[p].success
     /\ executionResults[p].err = "Submission failed"
     /\ submissions[p] = 1

\* invocation t decided on p after the history was cleared (the stored
\* decision is its own, saved at lines 458-470 after the clear), nothing
\* else is running, no execution of p is on record, and the identity's
\* vote on p is on chain: the vote was cast and its record lost before t
\* decided
ReevaluatedAfterLoss(t, p) ==
  /\ clears > 0
  /\ tasks[t].pid = p /\ voteHistory[p] = t
  /\ ~executionResults[p].set
  /\ \A u \in TaskIds \ {t} : tasks[u].pc = "idle"
  /\ chainVoted[p]

\* C29: an evaluation or approval event that comes after the history was
\* lost, for a proposal with the identity's vote on chain, never hands a
\* cast_vote call for that proposal to the signer.
C29_NoResubmissionAfterLoss ==
  [][\A p \in Pids : \A t \in TaskIds :
        ReevaluatedAfterLoss(t, p) => submissions'[p] = submissions[p]]_vars

\* the entries of the history, as a set
Entries(h) == {h[i] : i \in 1..Len(h)}

\* C30: the history never holds more entries than the cap; and a call that
\* inserts into a full history removes an entry whose timestamp is the
\* least of all, the new entry counted.
C30_HistoryCapped ==
  /\ [](Len(hist) <= HistoryCap)
  /\ [][(nextPid' # nextPid /\ Len(hist) >= HistoryCap)
          => LET new == [pid |-> nextPid, ts |-> clock]
                 all == Entries(hist) \cup {new}
             IN \E e \in all :
                   /\ \A f \in all : e.ts <= f.ts
                   /\ Entries(hist') = all \ {e}]_vars

\* C31: the execution-status map never holds more entries than the cap,
\* the state right after an execution wrote its status included; and when
\* an entry is removed, it is one whose time is the least of all.
C31_StatusMapCapped ==
  /\ [](Len(execs) <= HistoryCap)
  /\ [][Len(execs') < Len(execs)
          => \E e \in Entries(execs) :
                /\ \A f \in Entries(execs) : e.ts <= f.ts
                /\ Entries(execs') = Entries(execs) \ {e}]_vars

\* the sockets made by the last k reconnects
LastSockets(k) == {s \in SockIds : nextSock - k <= s /\ s < nextSock}

ClosesAfterError(s) ==
  /\ socks[s] \in {"connecting", "aborting", "closing"}
  /\ socks'[s] = "closed"

\* the error handler runs alone: an error on the open socket s
ErrorOnOpen(s) == socks[s] = "open" /\ socks'[s] = "closing"

C34_DispatchFilter ==
  /\ [](handler.votes \subseteq
          {i \in 1..Len(handler.events) : handler.events[i] = "approve"})
  /\ [](handler.pc = "handleVote"
          => handler.events[handler.i] = "approve")
  /\ [](handler.frame \in DroppedFrames
          => handler.pc = "done" /\ handler.seen = {} /\ handler.votes = {})
  /\ [][(handler' # handler /\ handler.pc # "handleVote")
          => UNCHANGED <<voteHistory, executionResults>>]_vars

\* a message of three events has been handled: one of another type, one
\* without id, and an approval, which alone went to handleVote
C34_Witness ==
  /\ handler.pc = "done"
  /\ handler.events = <<"other", "noId", "approve">>
  /\ handler.seen = {1, 2, 3}
  /\ handler.votes = {3}

\* C35: an attempt that is not the first one of the queue starts only at
\* the end of a pacing delay.
C35_PacingBeforeEveryDequeue ==
  [][(Len(startLog) > 0 /\ Len(startLog') > Len(startLog))
       => \E l \in loops : l.pc = "pace" /\ l \notin loops']_vars

\* C36: two evaluations of proposals with the same title and the same
\* description send the same prompt, whatever their other fields, and
\* record the same selected option when the AI gives them the same answer.
C36_PromptFromTitleAndDescription ==
  (/\ ask.pc # "idle"
   /\ ask.props[1].title = ask.props[2].title
   /\ ask.props[1].description = ask.props[2].description)
  => /\ ask.prompts[1] = ask.prompts[2]
     /\ ask.pc = "saved" => ask.saved[1] = ask.saved[2]

\* two proposals with the same title and description and another status
\* and id were evaluated, and Against was recorded for both
C36_Witness ==
  /\ ask.pc = "saved"
  /\ ask.props[1] = [title |-> "Grants", description |-> "Text",
                     status |-> "Voting", id |-> 1]
  /\ ask.props[2] = [title |-> "Grants", description |-> "Text",
                     status |-> "Approved", id |-> 2]
  /\ ask.prompts = <<(<<"Grants", "Text">>), (<<"Grants", "Text">>)>>
  /\ ask.saved = <<"Against", "Against">>

\* C37: every execution-status record has executed = success, and a map
\* entry that was never written reads as neither; no step writes a record
\* in which the two differ.
C37_ExecutedIffSuccess ==
  /\ [](\A p \in Pids :
          executionResults[p].executed = executionResults[p].success)
  /\ [][\A p \in Pids :
          executionResults'[p] # executionResults[p]
          => executionResults'[p].executed = executionResults'[p].success]_vars

\* the catch block has recorded the failure of an attempt that found the
\* vote on chain: neither executed nor success
C37_Witness ==
  \E p \in Pids :
     /\ executionResults[p].set
     /\ executionResults[p].err = "Already voted on proposal"
     /\ ~executionResults[p].executed /\ ~executionResults[p].success

\* C38: whenever the pending list is non-empty, a drain loop is running
\* with isProcessing set, or a restart of the drain loop is scheduled; and
\* a state with isProcessing clear and a pending item is one in which the
\* scheduled restart, when it runs, starts the drain loop.
C38_NoLostWakeup ==
  /\ Len(queue) > 0
       => \/ isProcessing /\ loops # {}
          \/ restartScheduled > 0
  /\ (~isProcessing /\ Len(queue) > 0)
       => /\ restartScheduled > 0
          /\ ProcessQueueGuard(isProcessing, Len(queue))

\* a drain loop has left through its finally block with an item pending:
\* the flag is clear and the restart is scheduled
C38_Witness ==
  /\ ~isProcessing
  /\ Len(queue) > 0
  /\ loops = {}
  /\ restartScheduled = 1

\* an approval event for p has passed the readiness polling in this step
EventStep(p) ==
  /\ lastStep'.call = "event" /\ lastStep'.pid = p
  /\ nextTask' = nextTask + 1

\* C39: an approval event for a proposal with a stored decision, with or
\* without option, executed or not, calls neither the AI nor the signer
\* and leaves the history, the execution-status map and the running
\* invocations as they are; an event calls the AI only with no decision
\* stored.
C39_EventSkipsStoredDecision ==
  [][\A p \in Pids :
       EventStep(p)
       => /\ voteHistory[p] # 0
             => /\ aiCalls' = aiCalls /\ submissions' = submissions
                /\ UNCHANGED <<voteHistory, executionResults, objs, tasks>>
          /\ aiCalls'[p] # aiCalls[p] => voteHistory[p] = 0]_vars

\* the AI failed for the first approval event, and a second event for the
\* proposal found the decision without option: no second AI call
C39_Witness ==
  \E p \in Pids :
     /\ lastStep.call = "event" /\ lastStep.pid = p
     /\ voteHistory[p] # 0
     /\ objs[voteHistory[p]].opt = NoOption
     /\ ~executionResults[p].set
     /\ aiCalls[p] = 1
     /\ nextTask = 3
     /\ \A t \in TaskIds : tasks[t].pc = "idle"

\* the monitor was started, holds no socket, is not connecting and is
\* below the ceiling, with k - 1 sockets made so far
NoConnection(k) ==
  /\ started
  /\ eventClient = 0 /\ ~isConnecting
  /\ reconnectAttempts < maxReconnectAttempts
  /\ nextSock = k

\* C40: from every state in which the started monitor has no socket and
\* no attempt in progress below the ceiling, a new socket is made at some
\* point; and the monitor is left without a live socket for good only at
\* the ceiling.
C40_ReconnectLiveness ==
  /\ \A k \in 1..MaxSockets : NoConnection(k) ~> (nextSock > k)
  /\ [](Stopped => reconnectAttempts = maxReconnectAttempts)

====
